---- MODULE Spec2Model ----
(***************************************************************************)
(* Ticket and identity registry of the KenzAI bot: the link store          *)
(* (linking.json), the applicant store (applicants.json), the member       *)
(* store (members.json), the clan store (clans.json) and the ticket        *)
(* session cache (cache.json), driven by the button, modal and command     *)
(* handlers of the application module.                                     *)
(***************************************************************************)
EXTENDS Integers, Sequences, FiniteSets, TLC

(***************************************************************************)
(* Bounds of the model.                                                    *)
(***************************************************************************)
\* cap on each per-type ticket counter of cache.json
MaxTickets == 2
\* last instant of the logical clock behind new Date()
MaxTime == 2
\* application forms shown to one user and not yet submitted
MaxModals == 1
\* clan commands suspended at an await at the same time
MaxClanOps == 2

(***************************************************************************)
(* Values.                                                                 *)
(***************************************************************************)
\* JavaScript null / undefined of a string-valued field
Null == "<null>"
\* JavaScript null / undefined of a timestamp field
NullTime == 0

\* Discord identities: two applicants and one staff member
Users == {"u1", "u2"}
Staff == {"s1"}
People == Users \cup Staff

\* interaction.user.username, as a sequence of characters
Username(u) ==
  CASE u = "u1" -> <<"B", "o", "b">>
    [] u = "u2" -> <<"b", "o", "b", "_", "b", "y">>
    [] OTHER -> <<"m", "o", "d">>

\* interaction.user.tag
Tag(u) ==
  CASE u = "u1" -> "Bob"
    [] u = "u2" -> "bob_by"
    [] OTHER -> "mod"

\* Minecraft usernames a caller can supply
MCNames == {"Steve", "steve", "Alex"}
\* every string that can reach the link store as a username
LinkNames == MCNames \cup {Tag(u) : u \in People}

\* the guild the application panel lives in, and the guilds of the empire
HomeGuild == "g1"
Guilds == {"g1", "g2"}
ClanNames == {"Kenz", "Unknown"}

\* String.prototype.toLowerCase on the strings of the model
ToLowerCase(s) ==
  CASE s = "Steve" -> "steve"
    [] s = "Alex" -> "alex"
    [] s = "Bob" -> "bob"
    [] OTHER -> s

\* String.prototype.toUpperCase on the abbreviations of the model
ToUpperCase(s) ==
  CASE s = "knz" -> "KNZ"
    [] s = "abc" -> "ABC"
    [] OTHER -> s

\* toLowerCase on one character
LowerChar(c) ==
  CASE c = "B" -> "b"
    [] OTHER -> c

\* a falsy string of JavaScript: null, undefined or ""
Falsy(s) == s = Null \/ s = ""

\* a || b on strings
OrElse(a, b) == IF Falsy(a) THEN b ELSE a

\* a || b on timestamps
OrElseTime(a, b) == IF a = NullTime THEN b ELSE a

\* obj[key] = value on a mapping (whole-document stores are mappings)
Put(f, k, v) == (k :> v) @@ f

\* delete obj[key]
Remove(f, k) == [x \in (DOMAIN f) \ {k} |-> f[x]]

\* the empty mapping {}
Empty == [x \in {} |-> Null]

\* the JSON files of the data directory
Stores == {"applicants", "linking", "clans", "members", "cache"}

(***************************************************************************)
(* State.                                                                  *)
(***************************************************************************)
VARIABLES
  links,        \* linking.json: discordId -> {discordId, minecraftUser}
  linkKeys,     \* key order of linking.json (insertion order)
  applicants,   \* applicants.json: discordId -> ApplicantRecord
  members,      \* members.json: discordId -> MemberRecord
  clans,        \* clans.json: guildId -> ClanRecord
  clanKeys,     \* key order of clans.json (insertion order)
  cache,        \* cache.json: the sessions by channelId, and __counters
  channels,     \* text channels of the applications category
  modals,       \* application forms shown per user, not yet submitted
  nextChannel,  \* the id Discord gives the next channel created
  inflight,     \* handlers suspended at an await, with their local variables
  timers,       \* pending setTimeout callbacks
  now,          \* the clock read by new Date()
  issued,       \* history: the values getNextNumber returned, per type
  linked,       \* history: the (id, name) pairs linkMember reported linked
  decision,     \* history: per user, what Decide did since the last Open
  disk,         \* per store file: ok, missing, or holding malformed JSON
  applicantKeys, \* the keys of applicants.json in the order they were added
  last          \* the last operation handled and what it returned

vars == <<links, linkKeys, applicants, members, clans, clanKeys, cache, channels, nextChannel, modals, inflight, timers, now, issued,
          linked, decision, disk, applicantKeys, last>>

\* the states of the store files after the files of the stores in S have
\* been written: writeFileSync creates or replaces a file
Repaired(S) == [s \in Stores |-> IF s \in S THEN "ok" ELSE disk[s]]

(***************************************************************************)
(* linklogic.js                                                            *)
(***************************************************************************)
\* ensureDataFile: the parsed content of linking.json
ensureDataFile == links

\* the result object of linkMember, absent keys read as Null
LinkResult(success, reason, discordId, minecraftUser, detailsId, detailsMC) ==
  [success |-> success, reason |-> reason, discordId |-> discordId,
   minecraftUser |-> minecraftUser, detailsId |-> detailsId,
   detailsMC |-> detailsMC]

\* variant of usernameTaken: the scan of the existing usernames is skipped
usernameTakenNever(data, mcKey) == FALSE

\* variant of usernameTaken: the stored username is compared as stored,
\* v.minecraftUser === mcKey
usernameTakenExact(data, mcKey) ==
  \E k \in DOMAIN data : data[k].minecraftUser = mcKey

\* Object.values(data).some(v => v.minecraftUser.toLowerCase() === mcKey)
usernameTaken(data, mcKey) ==
  \E k \in DOMAIN data : ToLowerCase(data[k].minecraftUser) = mcKey

\* variant of alreadyLinked: the check of the Discord id is skipped
alreadyLinkedNever(data, discordId) == FALSE

\* existingDiscord = data[discordId] is truthy
alreadyLinked(data, discordId) == discordId \in DOMAIN data

\* variant of LinkEntry: the lookup key mcKey is stored as the username
LinkEntryLowered(discordId, mcName) ==
  [discordId |-> discordId, minecraftUser |-> ToLowerCase(mcName)]

\* the record linkMember stores for discordId
LinkEntry(discordId, mcName) ==
  [discordId |-> discordId, minecraftUser |-> mcName]

\* the username linkMember works with: the argument, else the applicant's
\* legacy minecraftName
LinkName(discordId, mcName) ==
  IF ~Falsy(mcName) THEN mcName
  ELSE IF discordId \in DOMAIN applicants
          /\ ~Falsy(applicants[discordId].minecraftName)
       THEN applicants[discordId].minecraftName
       ELSE Null

\* linkMember(discordId, mcName): the result object and the document saved
linkMember(discordId, mcName) ==
  LET data == ensureDataFile
      name == LinkName(discordId, mcName)
      same == [result |-> LinkResult(FALSE, Null, Null, Null, Null, Null),
               data |-> data, keys |-> linkKeys]
  IN  IF Falsy(discordId)
      THEN [same EXCEPT !.result.reason = "invalid_arguments"]
      ELSE IF name = Null
      THEN [same EXCEPT !.result.reason = "no_mcname_provided"]
      ELSE IF alreadyLinked(data, discordId)
      THEN [same EXCEPT !.result =
              LinkResult(FALSE, "already_linked", Null, Null, discordId,
                         data[discordId].minecraftUser)]
      ELSE IF usernameTaken(data, ToLowerCase(name))
      THEN [same EXCEPT !.result =
              LinkResult(FALSE, "username_used", Null, Null, Null, name)]
      ELSE [result |-> LinkResult(TRUE, Null, discordId, name, Null, Null),
            data |-> Put(data, discordId, LinkEntry(discordId, name)),
            keys |-> Append(linkKeys, discordId)]

\* getMCFromDiscord(discordId)
getMCFromDiscord(discordId) ==
  IF discordId \in DOMAIN links /\ ~Falsy(links[discordId].minecraftUser)
  THEN links[discordId].minecraftUser
  ELSE Null

\* Object.values(data).find(pred): the first entry in key order
RECURSIVE FindEntry(_, _, _)
FindEntry(data, keys, mcKey) ==
  IF keys = <<>> THEN Null
  ELSE IF ToLowerCase(data[Head(keys)].minecraftUser) = mcKey
       THEN data[Head(keys)].discordId
       ELSE FindEntry(data, Tail(keys), mcKey)

\* getDiscordFromMC(mcName)
getDiscordFromMC(mcName) ==
  IF Falsy(mcName) THEN Null
  ELSE FindEntry(links, linkKeys, ToLowerCase(mcName))

\* the history of successful links, extended by one result
Linked(res) ==
  IF res.success THEN linked \cup {<<res.discordId, res.minecraftUser>>}
  ELSE linked

\* a call getMCFromDiscord(discordId) of the exported lookup
GetMCFromDiscordCall(discordId) ==
  /\ last' = [op |-> "getMCFromDiscord", id |-> discordId,
              value |-> getMCFromDiscord(discordId)]
  /\ UNCHANGED <<links, linkKeys, linked, applicants, members, clans, clanKeys, cache,
                 channels, nextChannel, modals, inflight, timers, now,
                 issued, decision, applicantKeys>>
  /\ disk' = Repaired({"linking"})

\* a direct call linkMember(id, name) of the exported function
LinkMemberCall(id, name) ==
  LET r == linkMember(id, name)
  IN  /\ links' = r.data
      /\ linkKeys' = r.keys
      /\ linked' = Linked(r.result)
      /\ last' = [op |-> "linkMember", id |-> id, name |-> name,
                  result |-> r.result]
      /\ UNCHANGED <<applicants, members, clans, clanKeys, cache, channels, nextChannel,
                     modals, inflight, timers, now, issued, decision,
                 applicantKeys>>
      /\ disk' = Repaired({"linking"})

\* linkMember(discordId, mcName) when the writeFileSync of saveData fails:
\* saveData logs the error and returns, linkMember returns its result
LinkMemberCallUnsaved(id, name) ==
  LET r == linkMember(id, name)
  IN  /\ r.result.success
      /\ last' = [op |-> "linkMember_unsaved", id |-> id, name |-> name,
                  result |-> r.result]
      /\ UNCHANGED <<links, linkKeys, linked, applicants, members, clans, clanKeys,
                     cache, channels, nextChannel, modals, inflight, timers,
                     now, issued, decision, disk,
                 applicantKeys>>

(***************************************************************************)
(* cache.js                                                                *)
(***************************************************************************)
Types == {"application", "normal"}

\* readCache(): the parsed document; sessions are its channelId keys and
\* counters its __counters key (an empty mapping while the key is absent)
readCache == cache

\* cache.__counters after "if (!cache.__counters) cache.__counters = ..."
CountersOrZero(doc) ==
  IF DOMAIN doc.counters = {} THEN [t \in Types |-> 0] ELSE doc.counters

\* getNextNumber(type): the value returned
getNextNumber(type) == CountersOrZero(readCache)[type] + 1

\* getNextNumber(type): the document written back
CacheAfterNumber(type) ==
  [readCache EXCEPT !.counters =
     [CountersOrZero(readCache) EXCEPT ![type] = getNextNumber(type)]]

\* cache.set(channelId, data): the document written back
cacheSet(channelId, data) ==
  [readCache EXCEPT !.sessions = Put(@, channelId, data)]

\* variant of cacheDelete: the document is written back from the sessions
\* alone, without its __counters key
cacheDeleteDroppingCounters(channelId) ==
  [sessions |-> Remove(readCache.sessions, channelId), counters |-> Empty]

\* cache.delete(channelId): the document written back
cacheDelete(channelId) ==
  [readCache EXCEPT !.sessions = Remove(@, channelId)]

\* cache.get(channelId) is truthy
cacheHas(channelId) == channelId \in DOMAIN readCache.sessions

\* cache.get(channelId)
cacheGet(channelId) == readCache.sessions[channelId]

(***************************************************************************)
(* applicants.js                                                           *)
(***************************************************************************)
\* a ?? b on strings
Nullish(a, b) == IF a = Null THEN b ELSE a

\* an applicantData argument with every key absent
NoData ==
  [discordUser |-> Null, discordTag |-> Null, minecraftUser |-> Null,
   minecraftName |-> Null, minecraftVersion |-> Null, timezone |-> Null,
   previousGroups |-> Null, reason |-> Null, openedAt |-> NullTime,
   server |-> Null, closeReason |-> Null, closedAt |-> NullTime]

\* the keys of a stored record as an applicantData argument sees them
AsData(rec) ==
  [discordUser |-> rec.discordUser, discordTag |-> rec.discordTag,
   minecraftUser |-> rec.minecraftUser, minecraftName |-> rec.minecraftName,
   minecraftVersion |-> rec.minecraftVersion, timezone |-> rec.timezone,
   previousGroups |-> rec.previousGroups, reason |-> rec.reason,
   openedAt |-> rec.openedAt, server |-> rec.server,
   closeReason |-> rec.closeReason, closedAt |-> rec.closedAt]

\* the record saveApplicant builds; the keys it never writes read as Null
ApplicantRecord(discordId, ad, serverId, closeReason, accepted, closedAt) ==
  LET mcOriginal == OrElse(OrElse(ad.minecraftUser, ad.minecraftName), "")
      mcKey == IF Falsy(mcOriginal) THEN "" ELSE ToLowerCase(mcOriginal)
  IN  [discordId |-> discordId,
       discordUser |-> OrElse(OrElse(ad.discordUser, ad.discordTag), Null),
       discordTag |-> Null,
       minecraftUser |-> OrElse(mcOriginal, Null),
       minecraftName |-> Null,
       minecraftUserKey |-> OrElse(mcKey, Null),
       minecraftVersion |-> Nullish(ad.minecraftVersion, Null),
       timezone |-> OrElse(ad.timezone, Null),
       previousGroups |-> OrElse(ad.previousGroups, Null),
       reason |-> OrElse(ad.reason, Null),
       openedAt |-> OrElseTime(ad.openedAt, now),
       server |-> OrElse(OrElse(serverId, ad.server), Null),
       accepted |-> accepted,
       closeReason |-> OrElse(OrElse(closeReason, ad.closeReason), Null),
       closedAt |-> OrElseTime(OrElseTime(closedAt, ad.closedAt), NullTime)]

\* variant of saveApplicant: a record saved with a close reason loses its
\* acceptance
saveApplicantClosing(discordId, ad, serverId, closeReason, accepted, closedAt) ==
  Put(applicants, discordId,
      ApplicantRecord(discordId, ad, serverId, closeReason,
                      accepted /\ Falsy(closeReason), closedAt))

\* variant of saveApplicant: an acceptance already stored is kept
saveApplicantSticky(discordId, ad, serverId, closeReason, accepted, closedAt) ==
  Put(applicants, discordId,
      ApplicantRecord(discordId, ad, serverId, closeReason,
                      accepted \/ (discordId \in DOMAIN applicants
                                   /\ applicants[discordId].accepted),
                      closedAt))

\* variant of saveApplicant: the document written holds this record alone
saveApplicantAlone(discordId, ad, serverId, closeReason, accepted, closedAt) ==
  Put(Empty, discordId,
      ApplicantRecord(discordId, ad, serverId, closeReason, accepted,
                      closedAt))

\* variant of saveApplicant: a close reason already stored is kept when
\* none is given
saveApplicantMerging(discordId, ad, serverId, closeReason, accepted, closedAt) ==
  Put(applicants, discordId,
      ApplicantRecord(discordId, ad, serverId,
                      IF Falsy(closeReason) /\ discordId \in DOMAIN applicants
                      THEN applicants[discordId].closeReason
                      ELSE closeReason,
                      accepted, closedAt))

\* saveApplicant(...): the applicants.json written back
saveApplicant(discordId, ad, serverId, closeReason, accepted, closedAt) ==
  Put(applicants, discordId,
      ApplicantRecord(discordId, ad, serverId, closeReason, accepted,
                      closedAt))

\* Object.keys of the document saveApplicant(discordId, ...) writes: a new
\* key goes last, a key assigned again keeps its place
KeysAfter(discordId) ==
  IF discordId \in DOMAIN applicants THEN applicantKeys
  ELSE Append(applicantKeys, discordId)

\* a direct call saveApplicant(discordId, applicantData, serverId,
\* closeReason, accepted, closedAt) of the exported function; given tells
\* whether the accepted argument is passed, its default being false
SaveApplicantCall(discordId, ad, serverId, closeReason, given, accepted, closedAt) ==
  LET args == <<discordId, ad, serverId, closeReason, given, accepted,
                closedAt>>
      had == discordId \in DOMAIN applicants
  IN  /\ applicants' = saveApplicant(discordId, ad, serverId, closeReason,
                                     given /\ accepted, closedAt)
      /\ last' = [op |-> "saveApplicant", id |-> discordId, args |-> args,
                  had |-> had,
                  before |-> IF had THEN applicants[discordId]
                             ELSE ApplicantRecord(discordId, NoData, Null,
                                                  Null, FALSE, NullTime),
                  again |-> last.op = "saveApplicant" /\ last.args = args,
                  at |-> now]
      /\ UNCHANGED <<links, linkKeys, members, clans, clanKeys, cache, channels,
                     nextChannel, modals, inflight, timers, now, issued,
                     linked, decision>>
      /\ applicantKeys' = KeysAfter(discordId)
      /\ disk' = Repaired({"applicants"})

\* getApplicant(discordId) is truthy
hasApplicant(discordId) == discordId \in DOMAIN applicants

(***************************************************************************)
(* acceptedapplicants.js                                                   *)
(***************************************************************************)
\* formatDate(new Date().toISOString()): the calendar day of an instant,
\* two instants of the clock to a day
formatDate(t) == t \div (1 + 1)

\* variant of clanName: the clan is looked up under a key that is no
\* guild id
clanNameUnkeyed(server) == "Unknown"

\* clans[data.server]?.name || "Unknown"
clanName(server) ==
  IF server \in DOMAIN clans THEN OrElse(clans[server].name, "Unknown")
  ELSE "Unknown"

\* variant of MemberEntry: the lowercase lookup key is copied as the
\* Minecraft username
MemberEntryByKey(discordId, data) ==
  [discordId |-> discordId,
   discordUser |-> OrElse(data.discordUser, ""),
   minecraftUser |-> OrElse(data.minecraftUserKey, ""),
   minecraftVersion |-> OrElse(data.minecraftVersion, ""),
   JoinedClan |-> clanName(data.server),
   JoinDate |-> formatDate(now),
   YazanakiRank |-> "", EmpireID |-> "", Status |-> ""]

\* the entry acceptApplicant builds from the applicant record data
MemberEntry(discordId, data) ==
  [discordId |-> discordId,
   discordUser |-> OrElse(data.discordUser, ""),
   minecraftUser |-> OrElse(data.minecraftUser, ""),
   minecraftVersion |-> OrElse(data.minecraftVersion, ""),
   JoinedClan |-> clanName(data.server),
   JoinDate |-> formatDate(now),
   YazanakiRank |-> "", EmpireID |-> "", Status |-> ""]

\* variant of acceptApplicant: the accepted flag is not looked at
acceptApplicantUnchecked(apps, discordId) ==
  IF discordId \notin DOMAIN apps THEN members
  ELSE Put(members, discordId, MemberEntry(discordId, apps[discordId]))

\* variant of acceptApplicant: an identity that is a member already keeps
\* the entry it has
acceptApplicantOnce(apps, discordId) ==
  IF discordId \notin DOMAIN apps THEN members
  ELSE IF ~apps[discordId].accepted THEN members
  ELSE IF discordId \in DOMAIN members THEN members
  ELSE Put(members, discordId, MemberEntry(discordId, apps[discordId]))

\* acceptApplicant(discordId) reading the applicants document apps:
\* the members.json it leaves
acceptApplicant(apps, discordId) ==
  IF discordId \notin DOMAIN apps THEN members
  ELSE IF ~apps[discordId].accepted THEN members
  ELSE Put(members, discordId, MemberEntry(discordId, apps[discordId]))

\* acceptApplicant(discordId) reading the applicants document apps reaches
\* saveJSON(membersPath, members)
AcceptWrites(apps, discordId) ==
  discordId \in DOMAIN apps /\ apps[discordId].accepted

\* a direct call acceptApplicant(discordId) of the exported function
AcceptApplicantCall(discordId) ==
  /\ members' = acceptApplicant(applicants, discordId)
  /\ last' = [op |-> "acceptApplicant", id |-> discordId, at |-> now]
  /\ UNCHANGED <<links, linkKeys, applicants, clans, clanKeys, cache, channels,
                 nextChannel, modals, inflight, timers, now, issued, linked,
                 decision,
                 applicantKeys>>
  /\ disk' = IF AcceptWrites(applicants, discordId)
             THEN Repaired({"members"}) ELSE disk

(***************************************************************************)
(* application.js: names of the ticket channels                            *)
(***************************************************************************)
\* the characters [a-z0-9] that occur in the model
Alnum == {"b", "d", "m", "o", "y",
          "0", "1", "2", "3", "4", "5", "6", "7", "8", "9"}

\* username.toLowerCase().replace(/[^a-z0-9]/g, "")
Sanitize(name) ==
  LET IsAlnum(c) == c \in Alnum
  IN  SelectSeq([i \in 1..Len(name) |-> LowerChar(name[i])], IsAlnum)

\* one decimal digit as a character
DigitChar(d) == <<"0", "1", "2", "3", "4", "5", "6", "7", "8", "9">>[d + 1]

\* the decimal representation `${ticketNumber}`
RECURSIVE Decimal(_)
Decimal(n) ==
  IF n < 10 THEN <<DigitChar(n)>>
  ELSE Append(Decimal(n \div 10), DigitChar(n % 10))

\* `${sanitized username}-${ticketNumber}`
ChannelName(u, ticketNumber) ==
  Sanitize(Username(u)) \o <<"-">> \o Decimal(ticketNumber)

\* String.prototype.startsWith
StartsWith(str, prefix) ==
  /\ Len(prefix) <= Len(str)
  /\ SubSeq(str, 1, Len(prefix)) = prefix

\* guild.channels.cache.find(ch => ch.parentId === category.id &&
\*   ch.name.startsWith(sanitized username)) finds a channel
existing(u) ==
  \E c \in DOMAIN channels :
     StartsWith(channels[c].name, Sanitize(Username(u)))

(***************************************************************************)
(* link.js: the /link command                                              *)
(***************************************************************************)
\* the reply execute() chooses for a linkMember result
LinkReply(result) ==
  IF ~result.success /\ result.reason = "already_linked" THEN "already_linked"
  ELSE IF ~result.success /\ result.reason = "username_used"
  THEN "username_used"
  ELSE "unexpected_error"

\* /link username:<typed> run by user u:
\* linklogic.linkMember(discordId, discordTag, mcName)
LinkCommand(u, typed) ==
  LET r == linkMember(u, Tag(u))
  IN  /\ links' = r.data
      /\ linkKeys' = r.keys
      /\ linked' = Linked(r.result)
      /\ last' = [op |-> "link_command", id |-> u, name |-> typed,
                  result |-> r.result, reply |-> LinkReply(r.result)]
      /\ UNCHANGED <<applicants, members, clans, clanKeys, cache, channels, nextChannel,
                     modals, inflight, timers, now, issued, decision,
                 applicantKeys>>
      /\ disk' = Repaired({"linking"})

(***************************************************************************)
(* application.js: buttonHandler and modalHandler                          *)
(***************************************************************************)
\* variant of OpenData: the username and version inputs are swapped
OpenDataSwapped(u, mcName, mcVersion) ==
  [NoData EXCEPT !.discordUser = Tag(u), !.minecraftUser = mcVersion,
                 !.minecraftVersion = mcName, !.timezone = "GMT",
                 !.previousGroups = "none", !.reason = "join",
                 !.server = HomeGuild]

\* the applicantData the application modal passes to saveApplicant
OpenData(u, mcName, mcVersion) ==
  [NoData EXCEPT !.discordUser = Tag(u), !.minecraftUser = mcName,
                 !.minecraftVersion = mcVersion, !.timezone = "GMT",
                 !.previousGroups = "none", !.reason = "join",
                 !.server = HomeGuild]

\* the applicantData the accept / reject branch passes to saveApplicant
DecideData(applicantData) ==
  [NoData EXCEPT
     !.discordUser = OrElse(OrElse(applicantData.discordUser,
                                   applicantData.discordTag), Null),
     !.minecraftUser = OrElse(OrElse(applicantData.minecraftUser,
                                     applicantData.minecraftName), ""),
     !.timezone = applicantData.timezone,
     !.previousGroups = applicantData.previousGroups,
     !.reason = applicantData.reason,
     !.server = applicantData.server,
     !.minecraftVersion = OrElse(applicantData.minecraftVersion, "")]

\* the applicantData the close modal passes to saveApplicant
CloseData(applicantData, closer) ==
  [AsData(applicantData) EXCEPT
     !.discordUser = Tag(closer),
     !.minecraftUser = OrElse(OrElse(applicantData.minecraftUser,
                                     applicantData.minecraftName), "")]

\* button start_application pressed by u
StartApplication(u) ==
  /\ IF existing(u)
     THEN /\ last' = [op |-> "start_application", id |-> u, shown |-> FALSE]
          /\ UNCHANGED modals
     ELSE /\ modals[u] < MaxModals
          /\ modals' = [modals EXCEPT ![u] = @ + 1]
          /\ last' = [op |-> "start_application", id |-> u, shown |-> TRUE]
  /\ UNCHANGED <<links, linkKeys, applicants, members, clans, clanKeys, cache,
                 channels, nextChannel, inflight, timers, now, issued,
                 linked, decision,
                 disk,
                 applicantKeys>>

\* modal application_modal_<u> submitted: up to the await of
\* guild.channels.create; when cache.json cannot be read, readCache throws
\* inside getNextNumber and the handler ends there
ModalSubmit(u, mcName, mcVersion) ==
  /\ modals[u] > 0
  /\ modals' = [modals EXCEPT ![u] = @ - 1]
  /\ IF disk["cache"] = "ok"
     THEN /\ getNextNumber("application") <= MaxTickets
          /\ cache' = CacheAfterNumber("application")
          /\ issued' = [issued EXCEPT !["application"] =
                          Append(@, getNextNumber("application"))]
          /\ inflight' = inflight \cup
               {[kind |-> "open", id |-> u, mcName |-> mcName,
                 mcVersion |-> mcVersion,
                 ticketNumber |-> getNextNumber("application")]}
          /\ last' = [op |-> "application_modal", id |-> u]
     ELSE /\ last' = [op |-> "application_modal", id |-> u,
                      raised |-> TRUE]
          /\ UNCHANGED <<cache, issued, inflight>>
  /\ UNCHANGED <<links, linkKeys, applicants, members, clans, clanKeys, channels, nextChannel, timers, now, linked, decision,
                 disk,
                 applicantKeys>>

\* guild.channels.create resolved: the rest of the application modal; when
\* cache.json cannot be read, readCache throws inside cache.set, after the
\* record is saved and the timer set, and the handler ends there
ChannelCreated(h) ==
  /\ h \in inflight /\ h.kind = "open"
  /\ inflight' = inflight \ {h}
  /\ channels' = Put(channels, nextChannel,
                     [name |-> ChannelName(h.id, h.ticketNumber),
                      opener |-> h.id])
  /\ nextChannel' = nextChannel + 1
  /\ applicants' = saveApplicant(h.id, OpenData(h.id, h.mcName, h.mcVersion),
                                 Null, Null, FALSE, NullTime)
  /\ timers' = timers \cup
       {[kind |-> "autolink", id |-> h.id, n |-> h.ticketNumber]}
  /\ cache' = IF disk["cache"] = "ok"
              THEN cacheSet(nextChannel,
                     [type |-> "application", openerId |-> h.id,
                      openerTag |-> Tag(h.id),
                      ticketNumber |-> h.ticketNumber, openedAt |-> now])
              ELSE cache
  /\ last' = [op |-> IF disk["cache"] = "ok" THEN "open"
                     ELSE "open_unsessioned",
              id |-> h.id, channel |-> nextChannel,
              ticketNumber |-> h.ticketNumber, mcName |-> h.mcName,
              mcVersion |-> h.mcVersion, at |-> now]
  /\ decision' = [decision EXCEPT ![h.id] = "pending"]
  /\ UNCHANGED <<links, linkKeys, members, clans, clanKeys, modals, now, issued,
                 linked>>
  /\ applicantKeys' = KeysAfter(h.id)
  /\ disk' = Repaired({"applicants"})

\* guild.channels.create resolved and the write of applicants.json inside
\* saveApplicant failed: saveApplicants logs the error and the rest of the
\* application modal runs
ChannelCreatedUnsaved(h) ==
  /\ h \in inflight /\ h.kind = "open"
  /\ inflight' = inflight \ {h}
  /\ channels' = Put(channels, nextChannel,
                     [name |-> ChannelName(h.id, h.ticketNumber),
                      opener |-> h.id])
  /\ nextChannel' = nextChannel + 1
  /\ timers' = timers \cup
       {[kind |-> "autolink", id |-> h.id, n |-> h.ticketNumber]}
  /\ cache' = IF disk["cache"] = "ok"
              THEN cacheSet(nextChannel,
                     [type |-> "application", openerId |-> h.id,
                      openerTag |-> Tag(h.id),
                      ticketNumber |-> h.ticketNumber, openedAt |-> now])
              ELSE cache
  /\ decision' = [decision EXCEPT ![h.id] = "pending"]
  /\ last' = [op |-> IF disk["cache"] = "ok" THEN "open_unsaved"
                     ELSE "open_unsaved_unsessioned",
              id |-> h.id, channel |-> nextChannel,
              ticketNumber |-> h.ticketNumber]
  /\ UNCHANGED <<links, linkKeys, applicants, members, clans, clanKeys, modals, now,
                 issued, linked,
                 disk,
                 applicantKeys>>

\* guild.channels.create rejected: the modal handler throws and
\* interactionCreate logs the error
ChannelCreateFailed(h) ==
  /\ h \in inflight /\ h.kind = "open"
  /\ inflight' = inflight \ {h}
  /\ last' = [op |-> "open_failed", id |-> h.id,
              ticketNumber |-> h.ticketNumber]
  /\ UNCHANGED <<links, linkKeys, applicants, members, clans, clanKeys, cache,
                 channels, nextChannel, modals, timers, now, issued, linked, decision,
                 disk,
                 applicantKeys>>

\* variant of DecideSave: a missing record is created by the decision
DecideSaveUpsert(u, isAccepted) ==
  saveApplicant(u,
                IF hasApplicant(u) THEN DecideData(applicants[u]) ELSE NoData,
                HomeGuild, Null, isAccepted, now)

\* the applicants.json the accept / reject branch leaves: untouched when
\* getApplicant finds no record, else the record saved again
DecideSave(u, isAccepted) ==
  IF ~hasApplicant(u) THEN applicants
  ELSE LET applicantData == applicants[u]
       IN  saveApplicant(u, DecideData(applicantData),
                         Nullish(applicantData.server, HomeGuild),
                         Nullish(applicantData.closeReason, Null),
                         isAccepted, now)

\* variant of DecidePromote: a rejection removes the member entry
DecidePromoteDemoting(apps, u, isAccepted) ==
  IF isAccepted THEN acceptApplicant(apps, u) ELSE Remove(members, u)

\* variant of DecidePromote: a rejection rewrites an existing member entry
\* from the record just saved
DecidePromoteResync(apps, u, isAccepted) ==
  IF isAccepted THEN acceptApplicant(apps, u)
  ELSE IF u \in DOMAIN members
  THEN Put(members, u, MemberEntry(u, apps[u]))
  ELSE members

\* variant of DecidePromote: the member entry is built without looking at
\* the accepted flag of the record read back
DecidePromoteBlind(apps, u, isAccepted) ==
  IF isAccepted /\ u \in DOMAIN apps
  THEN Put(members, u, MemberEntry(u, apps[u]))
  ELSE members

\* if (isAccepted) acceptApplicant(discordId), reading the applicants
\* document apps: the members.json it leaves
DecidePromote(apps, u, isAccepted) ==
  IF isAccepted THEN acceptApplicant(apps, u) ELSE members

\* button accept_application_<u> or reject_application_<u> pressed by a
\* staff member in a ticket channel of u
Decide(u, isAccepted, permitted) ==
  /\ \E c \in DOMAIN channels : channels[c].opener = u
  /\ IF ~permitted
     THEN /\ last' = [op |-> "decide", id |-> u, reply |-> "no_permission"]
          /\ UNCHANGED <<applicants, members, decision>>
     ELSE LET saved == DecideSave(u, isAccepted)
              found == hasApplicant(u)
              reply == IF ~found THEN "not_found"
                       ELSE IF isAccepted THEN "accepted" ELSE "rejected"
          IN  /\ applicants' = saved
              /\ members' = IF found THEN DecidePromote(saved, u, isAccepted)
                            ELSE members
              /\ decision' = IF found THEN [decision EXCEPT ![u] = reply]
                             ELSE decision
              /\ last' = IF found
                         THEN [op |-> "decide", id |-> u, reply |-> reply,
                               at |-> now,
                               wasMember |-> u \in DOMAIN members]
                         ELSE [op |-> "decide", id |-> u, reply |-> reply]
  /\ UNCHANGED <<links, linkKeys, clans, clanKeys, cache, channels, nextChannel,
                 modals, inflight, timers, now, issued, linked,
                 applicantKeys>>
  /\ disk' = IF permitted /\ hasApplicant(u)
             THEN Repaired({"applicants"} \cup
                           IF isAccepted THEN {"members"} ELSE {})
             ELSE disk

\* the accept or reject button of a permitted staff member on a stored
\* record when the writeFileSync of saveApplicants fails: saveApplicants
\* logs the error and returns, acceptApplicant reads the file as it was,
\* and the handler replies as usual
DecideUnsaved(u, isAccepted) ==
  /\ \E c \in DOMAIN channels : channels[c].opener = u
  /\ hasApplicant(u)
  /\ members' = DecidePromote(applicants, u, isAccepted)
  /\ last' = [op |-> "decide_unsaved", id |-> u,
              reply |-> IF isAccepted THEN "accepted" ELSE "rejected",
              at |-> now]
  /\ UNCHANGED <<links, linkKeys, applicants, clans, clanKeys, cache, channels,
                 nextChannel, modals, inflight, timers, now, issued, linked,
                 decision, applicantKeys>>
  /\ disk' = IF isAccepted /\ AcceptWrites(applicants, u)
             THEN Repaired({"members"}) ELSE disk

\* the accept button of a permitted staff member on a stored record when
\* the process ends after saveApplicant has written applicants.json and
\* before acceptApplicant writes members.json: the files stay, pending
\* awaits and timers are gone
DecideCrashed(u) ==
  /\ \E c \in DOMAIN channels : channels[c].opener = u
  /\ hasApplicant(u)
  /\ applicants' = DecideSave(u, TRUE)
  /\ decision' = [decision EXCEPT ![u] = "accepted"]
  /\ inflight' = {}
  /\ timers' = {}
  /\ modals' = [x \in Users |-> 0]
  /\ last' = [op |-> "decide_crashed", id |-> u, at |-> now]
  /\ UNCHANGED <<links, linkKeys, members, clans, clanKeys, cache, channels,
                 nextChannel, now, issued, linked, applicantKeys>>
  /\ disk' = Repaired({"applicants"})

\* modal close_reason_modal_<channelId> submitted by closer: up to the
\* await inside transcript.generate; when cache.json cannot be read,
\* readCache throws inside cache.get and the handler ends there
CloseSubmit(channelId, closer, reason) ==
  /\ channelId \in 1..(nextChannel - 1)
  /\ IF channelId \notin DOMAIN channels
     THEN /\ last' = [op |-> "close", channel |-> channelId,
                      reply |-> "channel_not_found"]
          /\ UNCHANGED <<applicants, inflight>>
     ELSE IF disk["cache"] # "ok"
     THEN /\ last' = [op |-> "close", channel |-> channelId,
                      reply |-> "raised"]
          /\ UNCHANGED <<applicants, inflight>>
     ELSE /\ applicants' =
               IF cacheHas(channelId)
                  /\ hasApplicant(cacheGet(channelId).openerId)
               THEN LET openerId == cacheGet(channelId).openerId
                        applicantData == applicants[openerId]
                    IN  saveApplicant(openerId,
                          CloseData(applicantData, closer), HomeGuild,
                          reason, applicantData.accepted, now)
               ELSE applicants
          /\ inflight' = inflight \cup
               {[kind |-> "close", channel |-> channelId]}
          /\ last' = [op |-> "close", channel |-> channelId,
                      closer |-> closer, reply |-> "archiving", at |-> now]
  /\ UNCHANGED <<links, linkKeys, members, clans, clanKeys, cache, channels,
                 nextChannel, modals, timers, now, issued, linked, decision,
                 applicantKeys>>
  /\ disk' = IF channelId \in DOMAIN channels /\ disk["cache"] = "ok"
                /\ cacheHas(channelId)
                /\ hasApplicant(cacheGet(channelId).openerId)
             THEN Repaired({"applicants"}) ELSE disk

(***************************************************************************)
(* transcript.js                                                           *)
(***************************************************************************)
\* createTranscript and the transcript post resolved: the rest of
\* generate; when cache.json cannot be read, readCache throws inside
\* cache.delete and the catch of generate ends the call with no timer set
ArchiveDone(h) ==
  /\ h \in inflight /\ h.kind = "close"
  /\ inflight' = inflight \ {h}
  /\ IF disk["cache"] = "ok"
     THEN /\ cache' = cacheDelete(h.channel)
          /\ timers' = timers \cup
               {[kind |-> "deleteChannel", channel |-> h.channel]}
          /\ last' = [op |-> "closed", channel |-> h.channel,
                      archived |-> TRUE, reply |-> "closed_saved"]
     ELSE /\ last' = [op |-> "closed", channel |-> h.channel,
                      archived |-> FALSE, reply |-> "closed_saved"]
          /\ UNCHANGED <<cache, timers>>
  /\ UNCHANGED <<links, linkKeys, applicants, members, clans, clanKeys, channels, nextChannel, modals, now, issued, linked, decision,
                 disk,
                 applicantKeys>>

\* createTranscript or the transcript post rejected: generate logs the
\* error and returns
ArchiveFailed(h) ==
  /\ h \in inflight /\ h.kind = "close"
  /\ inflight' = inflight \ {h}
  /\ last' = [op |-> "closed", channel |-> h.channel, archived |-> FALSE,
              reply |-> "closed_saved"]
  /\ UNCHANGED <<links, linkKeys, applicants, members, clans, clanKeys, cache,
                 channels, nextChannel, modals, timers, now, issued, linked, decision,
                 disk,
                 applicantKeys>>

\* the setTimeout of generate fires: channel.delete()
DeleteChannel(t) ==
  /\ t \in timers /\ t.kind = "deleteChannel"
  /\ timers' = timers \ {t}
  /\ channels' = Remove(channels, t.channel)
  /\ last' = [op |-> "channel_delete", channel |-> t.channel]
  /\ UNCHANGED <<links, linkKeys, applicants, members, clans, clanKeys, cache,
                 nextChannel, modals, inflight, now, issued, linked, decision,
                 disk,
                 applicantKeys>>

(***************************************************************************)
(* autolink.js                                                             *)
(***************************************************************************)
\* variant of processApplicant: a missing applicant record rejects the
\* promise instead of resolving it
processApplicantRejecting(discordId) ==
  IF ~hasApplicant(discordId)
  THEN [result |-> LinkResult(FALSE, "unhandled_rejection", discordId,
                              Null, Null, Null),
        data |-> links, keys |-> linkKeys]
  ELSE IF Falsy(applicants[discordId].minecraftName)
  THEN [result |-> LinkResult(FALSE, "no_applicant_or_no_mc", discordId,
                              Null, Null, Null),
        data |-> links, keys |-> linkKeys]
  ELSE linkMember(discordId, applicants[discordId].minecraftName)

\* the body of processApplicant(discordId): what it resolves with and the
\* link document it leaves
processApplicant(discordId) ==
  IF ~hasApplicant(discordId) \/ Falsy(applicants[discordId].minecraftName)
  THEN [result |-> LinkResult(FALSE, "no_applicant_or_no_mc", discordId,
                              Null, Null, Null),
        data |-> links, keys |-> linkKeys]
  ELSE linkMember(discordId, applicants[discordId].minecraftName)

\* processApplicant(discordId) calls linkMember, whose ensureDataFile
\* rewrites a linking.json that is missing or malformed
ReachesLinkMember(discordId) ==
  hasApplicant(discordId) /\ ~Falsy(applicants[discordId].minecraftName)

\* the setTimeout of the application modal fires and, after its own delay,
\* processApplicant runs
ProcessApplicant(t) ==
  /\ t \in timers /\ t.kind = "autolink"
  /\ timers' = timers \ {t}
  /\ LET r == processApplicant(t.id)
     IN  /\ links' = r.data
         /\ linkKeys' = r.keys
         /\ linked' = Linked(r.result)
         /\ last' = [op |-> "processApplicant", id |-> t.id,
                     result |-> r.result]
  /\ UNCHANGED <<applicants, members, clans, clanKeys, cache, channels, nextChannel,
                 modals, inflight, now, issued, decision,
                 applicantKeys>>
  /\ disk' = IF ReachesLinkMember(t.id) THEN Repaired({"linking"}) ELSE disk

\* autolinkAll: the sweeps whose loop has not returned
Sweeps == {h \in inflight : h.kind = "sweep"}

\* variant of SweepDone: the loop also ends at the first result that is no
\* success
SweepDoneOnFailure(h) ==
  \/ Len(h.results) = Len(h.ids)
  \/ Len(h.results) > 0 /\ ~h.results[Len(h.results)].success

\* for (const id of ids): the ids are exhausted
SweepDone(h) == Len(h.results) = Len(h.ids)

\* { discordId: id, ...res }: a discordId of res overrides the one of the
\* loop
SweepEntry(id, res) == [res EXCEPT !.discordId = Nullish(res.discordId, id)]

\* autolinkAll(): getAllApplicants() and Object.keys, up to the first
\* await
AutolinkAllStart ==
  /\ Sweeps = {}
  /\ inflight' = inflight \cup
       {[kind |-> "sweep", ids |-> applicantKeys, results |-> <<>>]}
  /\ last' = [op |-> "autolinkAll_start", ids |-> applicantKeys]
  /\ UNCHANGED <<links, linkKeys, applicants, members, clans, clanKeys, cache,
                 channels, nextChannel, modals, timers, now, issued, linked,
                 decision, disk, applicantKeys>>

\* autolinkAll(): processApplicant(id, 0) of the next id settles and its
\* result is pushed
AutolinkAllStep(h) ==
  /\ h \in Sweeps /\ ~SweepDone(h)
  /\ LET id == h.ids[Len(h.results) + 1]
         r == processApplicant(id)
     IN  /\ links' = r.data
         /\ linkKeys' = r.keys
         /\ linked' = Linked(r.result)
         /\ inflight' = (inflight \ {h}) \cup
              {[h EXCEPT !.results = Append(@, SweepEntry(id, r.result))]}
         /\ last' = [op |-> "autolinkAll_step", id |-> id,
                     result |-> r.result]
  /\ UNCHANGED <<applicants, members, clans, clanKeys, cache, channels, nextChannel,
                 modals, timers, now, issued, decision, applicantKeys>>
  /\ disk' = IF ReachesLinkMember(h.ids[Len(h.results) + 1])
             THEN Repaired({"linking"}) ELSE disk

\* autolinkAll(): the loop is over and the results are returned
AutolinkAllReturn(h) ==
  /\ h \in Sweeps /\ SweepDone(h)
  /\ inflight' = inflight \ {h}
  /\ last' = [op |-> "autolinkAll", ids |-> h.ids, results |-> h.results]
  /\ UNCHANGED <<links, linkKeys, applicants, members, clans, clanKeys, cache,
                 channels, nextChannel, modals, timers, now, issued, linked,
                 decision, disk, applicantKeys>>

(***************************************************************************)
(* clan.js                                                                 *)
(***************************************************************************)
\* new Date().toISOString().split("T")[0] at instant t: the day of t
isoDate(t) == t \div (1 + 1)

\* clan commands suspended at an await
ClanOps ==
  {h \in inflight : h.kind \in {"clanAdd", "clanAddInvite", "clanRemove"}}

\* Object.values(clans).find(c => c.abbr.toUpperCase() ===
\* abbr.toUpperCase()): the key of the first such entry in key order
RECURSIVE ClanEntryKey(_, _, _)
ClanEntryKey(doc, keys, abbr) ==
  IF keys = <<>> THEN Null
  ELSE IF ToUpperCase(doc[Head(keys)].abbr) = ToUpperCase(abbr)
       THEN Head(keys)
       ELSE ClanEntryKey(doc, Tail(keys), abbr)

\* delete clans[guildId]: the key order without that key
KeysWithout(keys, guildId) == SelectSeq(keys, LAMBDA k : k # guildId)

\* clans[guildId] = ...: a new key goes last, a present key keeps its place
KeysWith(keys, guildId) ==
  IF \E i \in 1..Len(keys) : keys[i] = guildId THEN keys
  ELSE Append(keys, guildId)

\* /clan add: readClans() at the top of execute, up to the await of
\* deferReply
ClanAddStart(guildId, abbr, name) ==
  /\ Cardinality(ClanOps) < MaxClanOps
  /\ inflight' = inflight \cup
       {[kind |-> "clanAdd", guild |-> guildId, abbr |-> abbr,
         name |-> name, clans |-> clans, keys |-> clanKeys]}
  /\ disk' = Repaired({"clans"})
  /\ last' = [op |-> "clan_add", guild |-> guildId, reply |-> "deferring"]
  /\ UNCHANGED <<links, linkKeys, applicants, members, clans, clanKeys,
                 cache, channels, nextChannel, modals, timers, now, issued,
                 linked, decision, applicantKeys>>

\* /clan add: deferReply settled; the abbreviation is upper-cased, the
\* guild id checked in the object read at the start and the entry built
\* with the date of this moment, up to the await of createInvite
ClanAddDeferred(h) ==
  /\ h \in inflight /\ h.kind = "clanAdd"
  /\ IF h.guild \in DOMAIN h.clans
     THEN /\ inflight' = inflight \ {h}
          /\ last' = [op |-> "clan_add", guild |-> h.guild,
                      reply |-> "already_registered"]
     ELSE /\ inflight' = (inflight \ {h}) \cup
               {[kind |-> "clanAddInvite", guild |-> h.guild,
                 entry |-> [abbr |-> ToUpperCase(h.abbr), name |-> h.name,
                            joinedEmpire |-> isoDate(now)],
                 clans |-> h.clans, keys |-> h.keys]}
          /\ last' = [op |-> "clan_add", guild |-> h.guild,
                      reply |-> "deferred"]
  /\ UNCHANGED <<links, linkKeys, applicants, members, clans, clanKeys,
                 cache, channels, nextChannel, modals, timers, now, issued,
                 linked, decision, disk, applicantKeys>>

\* /clan add: createInvite settled, the invite is put into the entry and
\* writeClans(clans) writes the object read at the start
ClanAddWrite(h, invite) ==
  /\ h \in inflight /\ h.kind = "clanAddInvite"
  /\ inflight' = inflight \ {h}
  /\ clans' = Put(h.clans, h.guild,
                  [abbr |-> h.entry.abbr, name |-> h.entry.name,
                   joinedEmpire |-> h.entry.joinedEmpire,
                   invite |-> invite])
  /\ clanKeys' = KeysWith(h.keys, h.guild)
  /\ disk' = Repaired({"clans"})
  /\ last' = [op |-> "clan_add", guild |-> h.guild, reply |-> "added"]
  /\ UNCHANGED <<links, linkKeys, applicants, members, cache, channels,
                 nextChannel, modals, timers, now, issued, linked, decision,
                 applicantKeys>>

\* /clan remove: readClans() at the top of execute, up to the await of
\* deferReply
ClanRemoveStart(guildId) ==
  /\ Cardinality(ClanOps) < MaxClanOps
  /\ inflight' = inflight \cup
       {[kind |-> "clanRemove", guild |-> guildId, clans |-> clans,
         keys |-> clanKeys]}
  /\ disk' = Repaired({"clans"})
  /\ last' = [op |-> "clan_remove", guild |-> guildId, reply |-> "deferred"]
  /\ UNCHANGED <<links, linkKeys, applicants, members, clans, clanKeys,
                 cache, channels, nextChannel, modals, timers, now, issued,
                 linked, decision, applicantKeys>>

\* /clan remove: the check of the guild id and writeClans(clans) of the
\* object read at the start
ClanRemoveWrite(h) ==
  /\ h \in inflight /\ h.kind = "clanRemove"
  /\ inflight' = inflight \ {h}
  /\ IF h.guild \notin DOMAIN h.clans
     THEN /\ last' = [op |-> "clan_remove", guild |-> h.guild,
                      reply |-> "not_found"]
          /\ UNCHANGED <<clans, clanKeys, disk>>
     ELSE /\ clans' = Remove(h.clans, h.guild)
          /\ clanKeys' = KeysWithout(h.keys, h.guild)
          /\ disk' = Repaired({"clans"})
          /\ last' = [op |-> "clan_remove", guild |-> h.guild,
                      reply |-> "removed"]
  /\ UNCHANGED <<links, linkKeys, applicants, members, cache, channels,
                 nextChannel, modals, timers, now, issued, linked, decision,
                 applicantKeys>>

\* /clan view and updateBannerIfNew calls between their read and their
\* write
ClanViews ==
  {h \in inflight : h.kind \in {"clanViewDefer", "clanView", "banner"}}

\* /clan view without a clan option in guild guildId: readClans() at the
\* top of execute, up to the await of deferReply
ClanViewStart(guildId) ==
  /\ Cardinality(ClanViews) < MaxClanOps
  /\ inflight' = inflight \cup
       {[kind |-> "clanViewDefer", guild |-> guildId, clans |-> clans,
         keys |-> clanKeys]}
  /\ last' = [op |-> "clan_view", guild |-> guildId, reply |-> "deferring"]
  /\ disk' = Repaired({"clans"})
  /\ UNCHANGED <<links, linkKeys, applicants, members, clans, clanKeys,
                 cache, channels, nextChannel, modals, timers, now, issued,
                 linked, decision, applicantKeys>>

\* /clan view: deferReply settled; the guild id is looked up in the object
\* read at the start, and the command replies that the clan is not found
\* or goes on to the await of guilds.fetch
ClanViewDeferred(h) ==
  /\ h \in inflight /\ h.kind = "clanViewDefer"
  /\ IF h.guild \notin DOMAIN h.clans
     THEN /\ inflight' = inflight \ {h}
          /\ last' = [op |-> "clan_view", guild |-> h.guild,
                      reply |-> "not_found"]
     ELSE /\ inflight' = (inflight \ {h}) \cup
               {[kind |-> "clanView", guild |-> h.guild, clans |-> h.clans,
                 keys |-> h.keys]}
          /\ last' = [op |-> "clan_view", guild |-> h.guild,
                      reply |-> "deferred"]
  /\ UNCHANGED <<links, linkKeys, applicants, members, clans, clanKeys,
                 cache, channels, nextChannel, modals, timers, now, issued,
                 linked, decision, disk, applicantKeys>>

\* /clan view: guilds.fetch rejected, the reply says that the bot cannot
\* access the guild and nothing is written
ClanViewNoAccess(h) ==
  /\ h \in inflight /\ h.kind = "clanView"
  /\ inflight' = inflight \ {h}
  /\ last' = [op |-> "clan_view", guild |-> h.guild, reply |-> "no_access",
              wrote |-> FALSE]
  /\ UNCHANGED <<links, linkKeys, applicants, members, clans, clanKeys,
                 cache, channels, nextChannel, modals, timers, now, issued,
                 linked, decision, disk, applicantKeys>>

\* /clan view: the stored invite is not among the guild's invites, a new
\* one is created, and writeClans(clans) writes the object read at the
\* start with it
ClanViewWrite(h, invite) ==
  /\ h \in inflight /\ h.kind = "clanView"
  /\ inflight' = inflight \ {h}
  /\ clans' = [h.clans EXCEPT ![h.guild].invite = invite]
  /\ clanKeys' = h.keys
  /\ disk' = Repaired({"clans"})
  /\ last' = [op |-> "clan_view", guild |-> h.guild, reply |-> "shown",
              wrote |-> TRUE]
  /\ UNCHANGED <<links, linkKeys, applicants, members, cache, channels,
                 nextChannel, modals, timers, now, issued, linked, decision,
                 applicantKeys>>

\* /clan view: the stored invite is among the guild's invites, or
\* createInvite rejected; nothing is written
ClanViewKept(h) ==
  /\ h \in inflight /\ h.kind = "clanView"
  /\ inflight' = inflight \ {h}
  /\ last' = [op |-> "clan_view", guild |-> h.guild, reply |-> "shown",
              wrote |-> FALSE]
  /\ UNCHANGED <<links, linkKeys, applicants, members, clans, clanKeys,
                 cache, channels, nextChannel, modals, timers, now, issued,
                 linked, decision, disk, applicantKeys>>

\* clanEntry.bannerURL === bannerURL
SameBanner(clanEntry, bannerURL) ==
  "bannerURL" \in DOMAIN clanEntry /\ clanEntry.bannerURL = bannerURL

\* updateBannerIfNew(guild, abbr) for a guild (Null: none is passed) whose
\* banner is at bannerURL (Null: the guild has none), flagged telling
\* whether the flag file of abbr exists: the check of the arguments,
\* readClans() and the lookup of the entry by abbreviation, up to the await
\* of the download
BannerStart(guild, abbr, bannerURL, flagged) ==
  LET key == ClanEntryKey(clans, clanKeys, abbr)
  IN  /\ IF guild = Null \/ Falsy(abbr)
         THEN /\ last' = [op |-> "banner", abbr |-> abbr,
                          reply |-> "no_arguments"]
              /\ UNCHANGED <<inflight, disk>>
         ELSE /\ disk' = Repaired({"clans"})
              /\ IF key = Null
                 THEN /\ last' = [op |-> "banner", abbr |-> abbr,
                                  reply |-> "no_clan"]
                      /\ UNCHANGED inflight
                 ELSE IF Falsy(bannerURL)
                 THEN /\ last' = [op |-> "banner", abbr |-> abbr,
                                  reply |-> "no_banner"]
                      /\ UNCHANGED inflight
                 ELSE IF SameBanner(clans[key], bannerURL) /\ flagged
                 THEN /\ last' = [op |-> "banner", abbr |-> abbr,
                                  reply |-> "kept"]
                      /\ UNCHANGED inflight
                 ELSE /\ Cardinality(ClanViews) < MaxClanOps
                      /\ inflight' = inflight \cup
                           {[kind |-> "banner", abbr |-> abbr,
                             guild |-> key, bannerURL |-> bannerURL,
                             clans |-> clans, keys |-> clanKeys]}
                      /\ last' = [op |-> "banner", abbr |-> abbr,
                                  reply |-> "downloading"]
      /\ UNCHANGED <<links, linkKeys, applicants, members, clans, clanKeys,
                     cache, channels, nextChannel, modals, timers, now,
                     issued, linked, decision, applicantKeys>>

\* updateBannerIfNew: the download ended with a status other than 200 or
\* with an error; the promise rejects and nothing is written
BannerFailed(h) ==
  /\ h \in inflight /\ h.kind = "banner"
  /\ inflight' = inflight \ {h}
  /\ last' = [op |-> "banner", abbr |-> h.abbr, reply |-> "failed"]
  /\ UNCHANGED <<links, linkKeys, applicants, members, clans, clanKeys,
                 cache, channels, nextChannel, modals, timers, now, issued,
                 linked, decision, disk, applicantKeys>>

\* updateBannerIfNew: the download is complete, clanEntry.bannerURL is set
\* and writeClans(clans) writes the object read at the start
BannerWrite(h) ==
  /\ h \in inflight /\ h.kind = "banner"
  /\ inflight' = inflight \ {h}
  /\ clans' = Put(h.clans, h.guild,
                  Put(h.clans[h.guild], "bannerURL", h.bannerURL))
  /\ clanKeys' = h.keys
  /\ disk' = Repaired({"clans"})
  /\ last' = [op |-> "banner", abbr |-> h.abbr, reply |-> "updated"]
  /\ UNCHANGED <<links, linkKeys, applicants, members, cache, channels,
                 nextChannel, modals, timers, now, issued, linked, decision,
                 applicantKeys>>

(***************************************************************************)
(* memberlogic.js                                                          *)
(***************************************************************************)
\* getMemberByDiscordId(discordId) is truthy
hasMember(discordId) == discordId \in DOMAIN members

\* variant of isUnlinked: one lookup that misses is enough
isUnlinkedEither(discordId) ==
  ~hasMember(discordId) \/ Falsy(getMCFromDiscord(discordId))

\* isUnlinked(discordId)
isUnlinked(discordId) ==
  IF hasMember(discordId) THEN FALSE
  ELSE Falsy(getMCFromDiscord(discordId))

\* a call isUnlinked(discordId) of the exported function
IsUnlinkedCall(discordId) ==
  /\ last' = [op |-> "isUnlinked", id |-> discordId,
              value |-> isUnlinked(discordId)]
  /\ UNCHANGED <<links, linkKeys, linked, applicants, members, clans, clanKeys, cache,
                 channels, nextChannel, modals, inflight, timers, now,
                 issued, decision, applicantKeys>>
  /\ disk' = IF hasMember(discordId) THEN disk ELSE Repaired({"linking"})

(***************************************************************************)
(* The store files: loading and saving when a file is missing or holds     *)
(* malformed JSON.  While a file is in that state the variable of its      *)
(* store holds the empty document.                                         *)
(***************************************************************************)
FileStates == {"ok", "missing", "malformed"}

\* the file of store s is deleted or overwritten with text that is no JSON
DamageFile(s, how) ==
  /\ how \in FileStates \ {"ok"}
  /\ disk' = [disk EXCEPT ![s] = how]
  /\ applicants' = IF s = "applicants" THEN Empty ELSE applicants
  /\ links' = IF s = "linking" THEN Empty ELSE links
  /\ linkKeys' = IF s = "linking" THEN <<>> ELSE linkKeys
  /\ clans' = IF s = "clans" THEN Empty ELSE clans
  /\ clanKeys' = IF s = "clans" THEN <<>> ELSE clanKeys
  /\ members' = IF s = "members" THEN Empty ELSE members
  /\ cache' = IF s = "cache" THEN [sessions |-> Empty, counters |-> Empty]
              ELSE cache
  /\ last' = [op |-> "damage", store |-> s]
  /\ UNCHANGED <<channels, nextChannel, modals, inflight, timers, now,
                 issued, linked, decision>>
  /\ applicantKeys' = IF s = "applicants" THEN <<>> ELSE applicantKeys

\* what the load and save calls below leave alone
StoresKept ==
  UNCHANGED <<links, linkKeys, applicants, members, clans, clanKeys, channels,
              nextChannel, modals, inflight, timers, now, issued, linked,
              decision, applicantKeys>>

\* loadApplicants(): every failure is caught and {} returned; the file is
\* left as it is
LoadApplicants ==
  /\ last' = [op |-> "load", store |-> "applicants",
              file |-> disk["applicants"], raised |-> FALSE,
              value |-> applicants]
  /\ UNCHANGED <<disk, cache>>
  /\ StoresKept

\* saveApplicants(loadApplicants()): writeFileSync creates or replaces the
\* file
SaveApplicants ==
  /\ disk' = [disk EXCEPT !["applicants"] = "ok"]
  /\ last' = [op |-> "save", store |-> "applicants",
              file |-> disk["applicants"], raised |-> FALSE]
  /\ UNCHANGED cache
  /\ StoresKept

\* ensureDataFile() of linklogic: a missing or malformed file is rewritten
\* as {} and {} returned
LoadLinks ==
  /\ disk' = [disk EXCEPT !["linking"] = "ok"]
  /\ last' = [op |-> "load", store |-> "linking", file |-> disk["linking"],
              raised |-> FALSE, value |-> ensureDataFile]
  /\ UNCHANGED cache
  /\ StoresKept

\* saveData(ensureDataFile())
SaveLinks ==
  /\ disk' = [disk EXCEPT !["linking"] = "ok"]
  /\ last' = [op |-> "save", store |-> "linking", file |-> disk["linking"],
              raised |-> FALSE]
  /\ UNCHANGED cache
  /\ StoresKept

\* readClans(): a missing or malformed file is rewritten as {} and {}
\* returned
ReadClans ==
  /\ disk' = [disk EXCEPT !["clans"] = "ok"]
  /\ last' = [op |-> "load", store |-> "clans", file |-> disk["clans"],
              raised |-> FALSE, value |-> clans]
  /\ UNCHANGED cache
  /\ StoresKept

\* writeClans(readClans())
WriteClans ==
  /\ disk' = [disk EXCEPT !["clans"] = "ok"]
  /\ last' = [op |-> "save", store |-> "clans", file |-> disk["clans"],
              raised |-> FALSE]
  /\ UNCHANGED cache
  /\ StoresKept

\* loadJSON(membersPath): {} for a missing file and on a parse error; the
\* file is left as it is
LoadMembers ==
  /\ last' = [op |-> "load", store |-> "members", file |-> disk["members"],
              raised |-> FALSE, value |-> members]
  /\ UNCHANGED <<disk, cache>>
  /\ StoresKept

\* saveJSON(membersPath, loadJSON(membersPath))
SaveMembers ==
  /\ disk' = [disk EXCEPT !["members"] = "ok"]
  /\ last' = [op |-> "save", store |-> "members", file |-> disk["members"],
              raised |-> FALSE]
  /\ UNCHANGED cache
  /\ StoresKept

\* cache.getAll(): the whole parsed document, the sessions and __counters
\* alike; readCache() parses the file with nothing catching what
\* readFileSync or JSON.parse throws
CacheGetAll ==
  /\ last' = IF disk["cache"] = "ok"
             THEN [op |-> "load", store |-> "cache", file |-> disk["cache"],
                   raised |-> FALSE, value |-> readCache]
             ELSE [op |-> "load", store |-> "cache", file |-> disk["cache"],
                   raised |-> TRUE]
  /\ UNCHANGED <<disk, cache>>
  /\ StoresKept

\* cache.set(channelId, data): readCache() first, then writeCache
CacheSet(channelId, data) ==
  /\ IF disk["cache"] = "ok"
     THEN /\ cache' = cacheSet(channelId, data)
          /\ last' = [op |-> "save", store |-> "cache",
                      file |-> disk["cache"], raised |-> FALSE]
     ELSE /\ cache' = cache
          /\ last' = [op |-> "save", store |-> "cache",
                      file |-> disk["cache"], raised |-> TRUE]
  /\ UNCHANGED disk
  /\ StoresKept

(***************************************************************************)
(* Environment.                                                            *)
(***************************************************************************)
\* a ticket of type normal takes its number: cache.getNextNumber("normal"),
\* which throws when cache.json cannot be read
NormalTicket ==
  /\ IF disk["cache"] = "ok"
     THEN /\ getNextNumber("normal") <= MaxTickets
          /\ cache' = CacheAfterNumber("normal")
          /\ issued' = [issued EXCEPT !["normal"] =
                          Append(@, getNextNumber("normal"))]
          /\ last' = [op |-> "normal_ticket",
                      ticketNumber |-> getNextNumber("normal")]
     ELSE /\ last' = [op |-> "normal_ticket", raised |-> TRUE]
          /\ UNCHANGED <<cache, issued>>
  /\ UNCHANGED <<links, linkKeys, applicants, members, clans, clanKeys, channels, nextChannel, modals, inflight, timers, now,
                 linked, decision,
                 disk,
                 applicantKeys>>

\* time passes
Tick ==
  /\ now < MaxTime
  /\ now' = now + 1
  /\ UNCHANGED <<links, linkKeys, applicants, members, clans, clanKeys, cache,
                 channels, nextChannel, modals, inflight, timers, issued,
                 linked, last, decision,
                 disk,
                 applicantKeys>>

(***************************************************************************)
(* Specification.                                                          *)
(***************************************************************************)
\* the stores as the module loaders create them, nothing in flight
Init ==
  /\ links = Empty
  /\ linkKeys = <<>>
  /\ applicants = Empty
  /\ members = Empty
  /\ clans = Empty
  /\ clanKeys = <<>>
  /\ cache = [sessions |-> Empty, counters |-> Empty]
  /\ channels = Empty
  /\ nextChannel = 1
  /\ modals = [u \in Users |-> 0]
  /\ inflight = {}
  /\ timers = {}
  /\ now = 1
  /\ issued = [t \in Types |-> <<>>]
  /\ linked = {}
  /\ decision = [u \in Users |-> "none"]
  /\ disk = [s \in Stores |-> "ok"]
  /\ applicantKeys = <<>>
  /\ last = [op |-> "start"]

\* the link store: explicit linking by two users, and automatic linking
\* after an application of u1
NextLink ==
  \/ \E id \in Users \cup {""}, name \in MCNames \cup {""} :
       LinkMemberCall(id, name)
  \/ \E u \in Users, typed \in {"Steve", "Alex"} : LinkCommand(u, typed)
  \/ StartApplication("u1")
  \/ ModalSubmit("u1", "Steve", "Java")
  \/ \E h \in inflight : ChannelCreated(h)
  \/ \E t \in timers : ProcessApplicant(t)

\* the ticket sessions of u1: opening, closing, archival
NextTickets ==
  \/ StartApplication("u1")
  \/ \E mcName \in {"Steve", "Alex"} : ModalSubmit("u1", mcName, "Java")
  \/ \E h \in inflight : ChannelCreated(h)
  \/ \E h \in inflight : ChannelCreateFailed(h)
  \/ \E c \in 1..MaxTickets : CloseSubmit(c, "s1", "done")
  \/ \E h \in inflight : ArchiveDone(h)
  \/ \E h \in inflight : ArchiveFailed(h)
  \/ \E t \in timers : DeleteChannel(t)
  \/ NormalTicket

\* the decisions on the applications of u1, as time passes
NextDecide ==
  \/ StartApplication("u1")
  \/ ModalSubmit("u1", "Steve", "Java")
  \/ \E h \in inflight : ChannelCreated(h)
  \/ \E isAccepted \in BOOLEAN, permitted \in BOOLEAN :
       Decide("u1", isAccepted, permitted)
  \/ \E c \in 1..MaxTickets : CloseSubmit(c, "s1", "done")
  \/ Tick

\* promotion of u1 while clans are added and removed, one clan command at
\* a time
NextPromote ==
  \/ StartApplication("u1")
  \/ ModalSubmit("u1", "Steve", "Java")
  \/ \E h \in inflight : ChannelCreated(h)
  \/ \E isAccepted \in BOOLEAN, permitted \in BOOLEAN :
       Decide("u1", isAccepted, permitted)
  \/ \E g \in Guilds, name \in ClanNames :
       ClanOps = {} /\ ClanAddStart(g, "knz", name)
  \/ \E h \in inflight : ClanAddDeferred(h)
  \/ \E h \in inflight : ClanAddWrite(h, "inv")
  \/ \E g \in Guilds : ClanOps = {} /\ ClanRemoveStart(g)
  \/ \E h \in inflight : ClanRemoveWrite(h)

\* applications of u1 whose record may fail to be written: decisions,
\* and closes on a missing record
NextNotFound ==
  \/ StartApplication("u1")
  \/ ModalSubmit("u1", "Steve", "Java")
  \/ \E h \in inflight : ChannelCreated(h)
  \/ \E h \in inflight : ChannelCreatedUnsaved(h)
  \/ \E isAccepted \in BOOLEAN, permitted \in BOOLEAN :
       Decide("u1", isAccepted, permitted)
  \/ \E c \in 1..MaxTickets : CloseSubmit(c, "s1", "done")
  \/ \E h \in inflight : ArchiveDone(h)
  \/ \E h \in inflight : ArchiveFailed(h)

\* the automatic link after the applications of u1, whose record may fail
\* to be written, while both users link by hand
NextAutolink ==
  \/ StartApplication("u1")
  \/ ModalSubmit("u1", "Steve", "Java")
  \/ \E h \in inflight : ChannelCreated(h)
  \/ \E h \in inflight : ChannelCreatedUnsaved(h)
  \/ \E t \in timers : ProcessApplicant(t)
  \/ \E id \in Users : LinkMemberCall(id, "Steve")

\* acceptApplicant called for any user, among the applications and
\* decisions of u1
NextAccept ==
  \/ StartApplication("u1")
  \/ ModalSubmit("u1", "Steve", "Java")
  \/ \E h \in inflight : ChannelCreated(h)
  \/ \E isAccepted \in BOOLEAN, permitted \in BOOLEAN :
       Decide("u1", isAccepted, permitted)
  \/ \E id \in Users : AcceptApplicantCall(id)
  \/ Tick

\* two applicants, one application each at a time, decided or closed by
\* staff as time passes
NextTriState ==
  \/ \E u \in Users : StartApplication(u)
  \/ \E u \in Users : ModalSubmit(u, "Steve", "Java")
  \/ \E h \in inflight : ChannelCreated(h)
  \/ \E u \in Users : Decide(u, FALSE, TRUE)
  \/ \E c \in 1..MaxTickets : CloseSubmit(c, "s1", "done")
  \/ Tick

\* one applicant who applies as Steve and, once that ticket is gone, again
\* as Alex, one form at a time, with staff deciding and closing, the
\* automatic link and the clock
NextMembers ==
  \/ modals["u1"] = 0 /\ inflight = {} /\ StartApplication("u1")
  \/ ModalSubmit("u1", IF nextChannel = 1 THEN "Steve" ELSE "Alex", "Java")
  \/ \E h \in inflight : ChannelCreated(h)
  \/ \E isAccepted \in BOOLEAN : Decide("u1", isAccepted, TRUE)
  \/ \E c \in DOMAIN channels : CloseSubmit(c, "s1", "done")
  \/ \E h \in inflight : ArchiveDone(h)
  \/ \E t \in timers : DeleteChannel(t)
  \/ \E t \in timers : ProcessApplicant(t)
  \/ Tick

\* the store files damaged, loaded and saved, and a link made, which
\* rewrites a damaged linking.json
NextFiles ==
  \/ \E s \in Stores, how \in FileStates : DamageFile(s, how)
  \/ LoadApplicants \/ SaveApplicants
  \/ LoadLinks \/ SaveLinks
  \/ ReadClans \/ WriteClans
  \/ LoadMembers \/ SaveMembers
  \/ CacheGetAll
  \/ CacheSet(1, [type |-> "normal", openerId |-> "u1",
                  openerTag |-> Tag("u1"), ticketNumber |-> 1,
                  openedAt |-> now])
  \/ LinkMemberCall("u1", "Steve")

\* links and decisions whose write to the store file may fail
NextSaveFails ==
  \/ StartApplication("u1")
  \/ ModalSubmit("u1", "Steve", "Java")
  \/ \E h \in inflight : ChannelCreated(h)
  \/ \E isAccepted \in BOOLEAN : Decide("u1", isAccepted, TRUE)
  \/ \E isAccepted \in BOOLEAN : DecideUnsaved("u1", isAccepted)
  \/ \E id \in Users : LinkMemberCall(id, "Steve")
  \/ \E id \in Users : LinkMemberCallUnsaved(id, "Steve")
  \/ Tick

\* the decisions on one application at a time of u1, where a write may
\* fail and the process may end between the two writes of an acceptance
NextCrash ==
  \/ modals["u1"] = 0 /\ inflight = {} /\ StartApplication("u1")
  \/ ModalSubmit("u1", "Steve", "Java")
  \/ \E h \in inflight : ChannelCreated(h)
  \/ \E isAccepted \in BOOLEAN : Decide("u1", isAccepted, TRUE)
  \/ \E isAccepted \in BOOLEAN : DecideUnsaved("u1", isAccepted)
  \/ DecideCrashed("u1")
  \/ Tick

\* clan add commands of several guilds, handled as their awaits settle
\* while time passes
NextClans ==
  \/ \E g \in Guilds, name \in ClanNames : ClanAddStart(g, "knz", name)
  \/ \E h \in inflight : ClanAddDeferred(h)
  \/ \E h \in inflight, invite \in {"#", "inv"} : ClanAddWrite(h, invite)
  \/ Tick

\* two applicants, one form at a time, whose tickets are closed, archived
\* and deleted, those of u1 also decided, while the automatic link runs
NextAudit ==
  \/ \E u \in Users :
       (\A x \in Users : modals[x] = 0) /\ inflight = {}
         /\ StartApplication(u)
  \/ \E u \in Users : ModalSubmit(u, "Steve", "Java")
  \/ \E h \in inflight : ChannelCreated(h)
  \/ \E isAccepted \in BOOLEAN : Decide("u1", isAccepted, TRUE)
  \/ \E c \in DOMAIN channels : CloseSubmit(c, "s1", "done")
  \/ \E h \in inflight : ArchiveDone(h)
  \/ \E t \in timers : DeleteChannel(t)
  \/ \E t \in timers : ProcessApplicant(t)

\* the field sets saveApplicant is called with: a whole application, one
\* carrying its opening time, and one that supplies the version alone
UpsertData ==
  {OpenData("u1", "Steve", "Java"),
   [OpenData("u1", "Steve", "Java") EXCEPT !.openedAt = 1],
   [NoData EXCEPT !.minecraftVersion = "Bedrock"]}

\* direct calls of saveApplicant for u1 as time passes
NextUpsert ==
  \/ \E ad \in UpsertData, serverId \in {Null, "g2"},
        closeReason \in {Null, "done"}, given \in BOOLEAN,
        accepted \in BOOLEAN, closedAt \in {NullTime, now} :
       SaveApplicantCall("u1", ad, serverId, closeReason, given, accepted,
                         closedAt)
  \/ Tick

\* link attempts and lookups of two identities, their applications with
\* the automatic link, and the sweep over all applicants
NextSweep ==
  \/ \E u \in Users :
       (\A x \in Users : modals[x] = 0) /\ inflight \subseteq Sweeps
         /\ StartApplication(u)
  \/ \E u \in Users : ModalSubmit(u, "Steve", "Java")
  \/ \E h \in inflight : ChannelCreated(h)
  \/ \E t \in timers : ProcessApplicant(t)
  \/ \E id \in Users, name \in {"Steve", "steve"} : LinkMemberCall(id, name)
  \/ \E u \in Users : LinkCommand(u, "Steve")
  \/ \E id \in Users : GetMCFromDiscordCall(id)
  \/ AutolinkAllStart
  \/ \E h \in inflight : AutolinkAllStep(h)
  \/ \E h \in inflight : AutolinkAllReturn(h)

\* clans added and removed, one such command at a time, while a clan
\* view of the home guild or a banner refresh for the abbreviation KNZ,
\* which both guilds register, is in progress
NextClanView ==
  \/ \E g \in Guilds :
       ClanOps = {}
         /\ ClanAddStart(g, IF g = HomeGuild THEN "KNZ" ELSE "knz", "Kenz")
  \/ \E h \in inflight : ClanAddDeferred(h)
  \/ \E h \in inflight : ClanAddWrite(h, "inv")
  \/ \E g \in Guilds : ClanOps = {} /\ ClanRemoveStart(g)
  \/ \E h \in inflight : ClanRemoveWrite(h)
  \/ ClanViews = {} /\ ClanViewStart(HomeGuild)
  \/ \E h \in inflight : ClanViewDeferred(h)
  \/ \E h \in inflight : ClanViewNoAccess(h)
  \/ \E h \in inflight : ClanViewWrite(h, "inv2")
  \/ \E h \in inflight : ClanViewKept(h)
  \/ \E abbr \in {"", "KNZ"}, bannerURL \in {Null, "banner.png"},
        flagged \in BOOLEAN :
       ClanViews = {} /\ BannerStart(HomeGuild, abbr, bannerURL, flagged)
  \/ \E h \in inflight : BannerFailed(h)
  \/ \E h \in inflight : BannerWrite(h)

\* isUnlinked asked about two identities while u1 applies and is decided
\* on and both identities link usernames
NextUnlinked ==
  \/ StartApplication("u1")
  \/ ModalSubmit("u1", "Steve", "Java")
  \/ \E h \in inflight : ChannelCreated(h)
  \/ \E isAccepted \in BOOLEAN : Decide("u1", isAccepted, TRUE)
  \/ \E id \in Users, name \in {"Steve", "Alex"} : LinkMemberCall(id, name)
  \/ \E id \in Users : IsUnlinkedCall(id)

\* clan commands and banner refreshes started while others are suspended
NextConcurrent ==
  \/ \E g \in Guilds : ClanRemoveStart(g)
  \/ \E g \in Guilds : ClanViewStart(g)
  \/ \E guild \in Guilds \cup {Null}, abbr \in {"", "KNZ", "knz", "ABC"},
        bannerURL \in {Null, "banner.png"}, flagged \in BOOLEAN :
       BannerStart(guild, abbr, bannerURL, flagged)

Next ==
  \/ NextLink \/ NextTickets \/ NextDecide \/ NextPromote
  \/ NextNotFound \/ NextAutolink \/ NextAccept \/ NextTriState
  \/ NextMembers \/ NextFiles \/ NextSaveFails \/ NextCrash
  \/ NextClans \/ NextAudit \/ NextUpsert \/ NextSweep
  \/ NextClanView \/ NextUnlinked \/ NextConcurrent

Spec == Init /\ [][Next]_vars

SpecLink == Init /\ [][NextLink]_vars

SpecTickets == Init /\ [][NextTickets]_vars

SpecDecide == Init /\ [][NextDecide]_vars

SpecPromote == Init /\ [][NextPromote]_vars

SpecNotFound == Init /\ [][NextNotFound]_vars

SpecAutolink == Init /\ [][NextAutolink]_vars

SpecAccept == Init /\ [][NextAccept]_vars

SpecTriState == Init /\ [][NextTriState]_vars

SpecMembers == Init /\ [][NextMembers]_vars

SpecFiles == Init /\ [][NextFiles]_vars

SpecSaveFails == Init /\ [][NextSaveFails]_vars

SpecCrash == Init /\ [][NextCrash]_vars

SpecClans == Init /\ [][NextClans]_vars

SpecAudit == Init /\ [][NextAudit]_vars

SpecUpsert == Init /\ [][NextUpsert]_vars

SpecSweep == Init /\ [][NextSweep]_vars

SpecClanView == Init /\ [][NextClanView]_vars

SpecUnlinked == Init /\ [][NextUnlinked]_vars

\* the timers of a sweep fire: a sweep that can go on does go on
SpecSweepFair ==
  /\ SpecSweep
  /\ WF_vars(\E h \in inflight : AutolinkAllStep(h))
  /\ WF_vars(\E h \in inflight : AutolinkAllReturn(h))

(***************************************************************************)
(* The link store.                                                         *)
(***************************************************************************)
\* two usernames that are equal when compared case-insensitively
SameIgnoringCase(a, b) == ToLowerCase(a) = ToLowerCase(b)

\* C1: in every reachable state of the link store each key maps to one
\* record whose discordId is the key, each key is listed once, and no two
\* records hold usernames that are equal ignoring case.
LinkStoreOneToOne ==
  /\ \A k \in DOMAIN links : links[k].discordId = k
  /\ Len(linkKeys) = Cardinality(DOMAIN links)
  /\ {linkKeys[i] : i \in 1..Len(linkKeys)} = DOMAIN links
  /\ \A k1, k2 \in DOMAIN links :
       k1 # k2 =>
         ~SameIgnoringCase(links[k1].minecraftUser, links[k2].minecraftUser)

\* C1 witness: both identities are linked and the deferred automatic link
\* of an application has just run.
LinkStoreOneToOneWitness ==
  /\ Cardinality(DOMAIN links) = 2
  /\ last.op = "processApplicant"

\* the step is a call linkMember(id, name), direct or by the /link command,
\* as recorded by LinkMemberCall and LinkCommand
LinkMemberStep(id, name) ==
  /\ last' # last
  /\ \/ last'.op = "linkMember" /\ last'.id = id /\ last'.name = name
     \/ last'.op = "link_command" /\ last'.id = id /\ name = Tag(id)

\* C2: linkMember(id, name) for an id that already has a record fails with
\* already_linked, carries the existing username, whatever name is
\* requested, and leaves the link store as it was.
AlreadyLinkedRejected ==
  [][\A id \in Users, name \in LinkNames :
       (id \in DOMAIN links /\ LinkMemberStep(id, name))
         => /\ links' = links
            /\ linkKeys' = linkKeys
            /\ ~last'.result.success
            /\ last'.result.reason = "already_linked"
            /\ last'.result.detailsMC = links[id].minecraftUser]_vars

\* C2 witness: a linked identity asked for another username and was
\* refused with the username it already has.
AlreadyLinkedWitness ==
  /\ last.op = "linkMember"
  /\ last.result.reason = "already_linked"
  /\ last.name # ""
  /\ ~SameIgnoringCase(last.name, last.result.detailsMC)
  /\ last.result.detailsMC = links[last.id].minecraftUser

\* some other identity holds a username equal to name ignoring case
HeldByAnother(id, name) ==
  \E k \in DOMAIN links :
     k # id /\ SameIgnoringCase(links[k].minecraftUser, name)

\* C3: linkMember(id, name) for an unlinked id, when another identity holds
\* a username equal to name ignoring case, fails with username_used and
\* leaves the link store as it was.
UsernameUsedRejected ==
  [][\A id \in Users, name \in LinkNames :
       (id \notin DOMAIN links /\ HeldByAnother(id, name)
        /\ LinkMemberStep(id, name))
         => /\ links' = links
            /\ linkKeys' = linkKeys
            /\ ~last'.result.success
            /\ last'.result.reason = "username_used"]_vars

\* C3 witness: an unlinked identity asked for a username that another
\* identity holds in another casing, and was refused.
UsernameUsedWitness ==
  /\ last.op = "linkMember"
  /\ last.result.reason = "username_used"
  /\ last.id \notin DOMAIN links
  /\ \E k \in DOMAIN links :
        /\ links[k].minecraftUser # last.name
        /\ SameIgnoringCase(links[k].minecraftUser, last.name)

\* C4: once linkMember(id, name) has succeeded, getMCFromDiscord(id) is
\* name in the casing supplied and getDiscordFromMC(n) is id for every n
\* equal to name ignoring case, in every later state.
LinkRoundTrip ==
  \A p \in linked :
     /\ getMCFromDiscord(p[1]) = p[2]
     /\ \A n \in LinkNames :
          SameIgnoringCase(n, p[2]) => getDiscordFromMC(n) = p[1]

\* C4 witness: two links succeeded, one of them for Steve, which is also
\* found as steve, and a later link attempt was refused.
LinkRoundTripWitness ==
  /\ Cardinality(linked) = 2
  /\ \E p \in linked : p[2] = "Steve" /\ getDiscordFromMC("steve") = p[1]
  /\ last.op = "linkMember"
  /\ ~last.result.success

(***************************************************************************)
(* The ticket session cache.                                               *)
(***************************************************************************)
\* the last element of a non-empty sequence
Last(seq) == seq[Len(seq)]

\* C5: for each session type the values getNextNumber returned are
\* strictly increasing, so none is issued twice, and the stored counter is
\* the last value issued whatever sessions were created or deleted since.
TicketNumbersIncrease ==
  \A t \in Types :
     /\ \A i, j \in 1..Len(issued[t]) : i < j => issued[t][i] < issued[t][j]
     /\ CountersOrZero(cache)[t] =
          IF issued[t] = <<>> THEN 0 ELSE Last(issued[t])

\* C5 witness: ticket 2 was opened after the session of ticket 1 was
\* deleted and its channel removed.
TicketNumbersIncreaseWitness ==
  /\ last.op = "open"
  /\ last.ticketNumber = 2
  /\ issued["application"] = <<1, 2>>
  /\ DOMAIN cache.sessions = {last.channel}
  /\ DOMAIN channels = {last.channel}

\* C6: the Ticket Session Cache holds at most one session with a given
\* openerId.
OneSessionPerOpener ==
  \A c1, c2 \in DOMAIN cache.sessions :
     c1 # c2 => cache.sessions[c1].openerId # cache.sessions[c2].openerId

\* C7: after a successful Open by u the ApplicantRecord of u holds the
\* submitted fields, is undecided and not closed, and the cache holds a
\* session keyed by the new channel with type application, opener u and
\* the ticket number allocated from the application counter.
OpenCreatesRecordAndSession ==
  last.op = "open" =>
    /\ last.id \in DOMAIN applicants
    /\ LET a == applicants[last.id]
       IN  /\ a.discordId = last.id
           /\ a.discordUser = Tag(last.id)
           /\ a.minecraftUser = last.mcName
           /\ a.minecraftVersion = last.mcVersion
           /\ a.server = HomeGuild
           /\ a.accepted = FALSE
           /\ a.closeReason = Null
           /\ a.closedAt = NullTime
    /\ last.channel \in DOMAIN channels
    /\ last.channel \in DOMAIN cache.sessions
    /\ LET t == cache.sessions[last.channel]
       IN  /\ t.type = "application"
           /\ t.openerId = last.id
           /\ t.ticketNumber = last.ticketNumber
    /\ \E i \in 1..Len(issued["application"]) :
          issued["application"][i] = last.ticketNumber

\* C7 witness: a second application, for Alex, was opened after a first
\* one had been closed with a reason.
OpenCreatesRecordAndSessionWitness ==
  /\ last.op = "open"
  /\ last.ticketNumber = 2
  /\ last.mcName = "Alex"
  /\ last.channel = 2
  /\ 1 \notin DOMAIN cache.sessions

(***************************************************************************)
(* Decisions and promotion.                                                *)
(***************************************************************************)
\* the last operation was a Decide that reported reply
Decided(reply) == last.op = "decide" /\ last.reply = reply

\* C8: a Decide on an existing ApplicantRecord stores accepted true for
\* Accept and false for Reject and stamps closedAt with the decision time,
\* also when an earlier decision is stored.
DecideRecordsDecision ==
  (Decided("accepted") \/ Decided("rejected")) =>
    /\ last.id \in DOMAIN applicants
    /\ applicants[last.id].accepted = Decided("accepted")
    /\ applicants[last.id].closedAt = last.at

\* C8 witness: an applicant accepted earlier, and so promoted, was
\* rejected at a later instant.
DecideRecordsDecisionWitness ==
  /\ Decided("rejected")
  /\ last.id \in DOMAIN members
  /\ last.at = 2
  /\ applicants[last.id].openedAt = 2

\* C9: right after Decide(Accept) the Member Registry holds a record keyed
\* by the applicant whose discordUser, minecraftUser and minecraftVersion
\* are those of the ApplicantRecord and whose rank, ID and status are
\* empty.
AcceptPromotes ==
  Decided("accepted") =>
    /\ last.id \in DOMAIN members
    /\ LET m == members[last.id]
           a == applicants[last.id]
       IN  /\ m.discordId = last.id
           /\ m.discordUser = a.discordUser
           /\ m.minecraftUser = a.minecraftUser
           /\ m.minecraftVersion = a.minecraftVersion
           /\ m.YazanakiRank = ""
           /\ m.EmpireID = ""
           /\ m.Status = ""

\* C9 witness: an applicant whose ticket was closed by staff with a reason
\* was accepted afterwards.
AcceptPromotesWitness ==
  /\ Decided("accepted")
  /\ applicants[last.id].closeReason = "done"
  /\ members[last.id].minecraftUser = "Steve"
  /\ members[last.id].discordUser = Tag("s1")

\* C10 as claimed: at promotion JoinedClan is the name of the ClanRecord of
\* the applicant's server, and is Unknown exactly when there is none.
JoinedClanUnknownIffNoClan ==
  Decided("accepted") =>
    LET server == applicants[last.id].server
        joined == members[last.id].JoinedClan
    IN  /\ server \in DOMAIN clans => joined = clans[server].name
        /\ joined = "Unknown" <=> server \notin DOMAIN clans

\* C10 as amended: at promotion JoinedClan is the name of the ClanRecord
\* of the applicant's server when there is one, and Unknown when there is
\* none.
JoinedClanFromServer ==
  Decided("accepted") =>
    LET server == applicants[last.id].server
        joined == members[last.id].JoinedClan
    IN  /\ server \in DOMAIN clans => joined = clans[server].name
        /\ server \notin DOMAIN clans => joined = "Unknown"

\* C10 witness: the applicant was promoted into the clan of the home guild
\* while another guild holds a clan of another name.
JoinedClanFromServerWitness ==
  /\ Decided("accepted")
  /\ members[last.id].JoinedClan = "Kenz"
  /\ "g2" \in DOMAIN clans
  /\ clans["g2"].name = "Unknown"

(***************************************************************************)
(* Missing records.                                                        *)
(***************************************************************************)
\* the step is an accept / reject press for u by a permitted member
DecideStep(u) ==
  /\ last' # last
  /\ last'.op = "decide"
  /\ last'.id = u
  /\ last'.reply # "no_permission"

\* C11: a Decide for a discordId that has no ApplicantRecord reports not
\* found and changes none of the applicant store, the member registry, the
\* link store and the session cache.
DecideNotFoundNoMutation ==
  [][\A u \in Users :
       (~hasApplicant(u) /\ DecideStep(u))
         => /\ last'.reply = "not_found"
            /\ UNCHANGED <<applicants, members, links, linkKeys, cache>>]_vars

\* C11 witness: staff pressed a decision button in the ticket of a user
\* whose session is cached but whose record was never written.
DecideNotFoundWitness ==
  /\ last.op = "decide"
  /\ last.reply = "not_found"
  /\ ~hasApplicant(last.id)
  /\ \E c \in DOMAIN cache.sessions : cache.sessions[c].openerId = last.id

\* C12: once a Close of a session whose opener has no ApplicantRecord has
\* been handled, not found was reported and the session is still cached.
CloseNotFoundNoMutation ==
  (/\ last.op = "closed"
   /\ last.channel \in DOMAIN channels
   /\ ~hasApplicant(channels[last.channel].opener))
    => /\ last.reply = "not_found"
       /\ cacheHas(last.channel)

(***************************************************************************)
(* What Close and Decide leave alone.                                      *)
(***************************************************************************)
\* the step is a close reason submitted for a channel that exists
CloseStep ==
  /\ last' # last
  /\ last'.op = "close"
  /\ last'.reply = "archiving"

\* C13: a Close changes no field of a stored ApplicantRecord other than
\* closeReason, whoever submits the close reason.
CloseChangesOnlyReason ==
  [][CloseStep =>
       \A u \in DOMAIN applicants :
          [applicants'[u] EXCEPT !.closeReason = applicants[u].closeReason]
            = applicants[u]]_vars

\* C14: no Decide and no Close changes the openedAt of a stored
\* ApplicantRecord.
OpenedAtStampedOnce ==
  [][(last' # last /\ last'.op \in {"decide", "close"}) =>
       \A u \in DOMAIN applicants :
          applicants'[u].openedAt = applicants[u].openedAt]_vars

\* C16: a Close leaves the accepted value of every stored record as it
\* was, decided or not, and a Decide on a record that has a closeReason
\* leaves that closeReason as it was.
DecisionClosureIndependent ==
  [][/\ CloseStep =>
          \A u \in DOMAIN applicants :
             applicants'[u].accepted = applicants[u].accepted
     /\ \A u \in Users :
          (/\ hasApplicant(u)
           /\ applicants[u].closeReason # Null
           /\ DecideStep(u))
            => applicants'[u].closeReason = applicants[u].closeReason]_vars

\* C16 witness: an applicant whose ticket had been closed with a reason was
\* accepted, and the ticket was closed once more after the acceptance.
DecisionClosureIndependentWitness ==
  /\ last.op = "close"
  /\ last.reply = "archiving"
  /\ decision["u1"] = "accepted"
  /\ applicants["u1"].accepted
  /\ applicants["u1"].closeReason = "done"
  /\ applicants["u1"].closedAt = 2
  /\ members["u1"].discordUser = Tag("s1")

\* C15: once a Close has been handled the session of its channel is absent
\* from the session cache, whether the transcript was archived or not.
CloseRemovesSession ==
  last.op = "closed" => ~cacheHas(last.channel)

(***************************************************************************)
(* The stored decision.                                                    *)
(***************************************************************************)
\* the fields of a stored record that tell of its decision and closure
Status(rec) ==
  [accepted |-> rec.accepted, closeReason |-> rec.closeReason,
   closedAt |-> rec.closedAt, openedAt |-> rec.openedAt]

\* C17: the stored record of an applicant with no Decide since the last
\* Open differs, in its decision and closure fields, from the stored record
\* of an applicant rejected since the last Open.
PendingDistinctFromRejected ==
  \A u, v \in DOMAIN applicants :
     (decision[u] = "pending" /\ decision[v] = "rejected")
       => Status(applicants[u]) # Status(applicants[v])

(***************************************************************************)
(* The automatic link.                                                     *)
(***************************************************************************)
\* C18: once the deferred automatic link of an applicant has run, and the
\* submitted Minecraft username is held by no other identity, the applicant
\* has a link record.
AutoLinkLinksApplicant ==
  (/\ last.op = "processApplicant"
   /\ hasApplicant(last.id)
   /\ ~HeldByAnother(last.id, applicants[last.id].minecraftUser))
    => /\ last.id \in DOMAIN links
       /\ last.result.reason # "no_applicant_or_no_mc"

\* the reasons of the failure results processApplicant resolves with
FailureReasons ==
  {"no_applicant_or_no_mc", "exception", "invalid_arguments",
   "no_mcname_provided", "already_linked", "username_used"}

\* the step is a run of the deferred processApplicant
AutoLinkStep ==
  /\ last'.op = "processApplicant"
  /\ timers' # timers
  /\ timers' \subseteq timers

\* C19: a run of processApplicant that fails resolves with a failure
\* result for the applicant and leaves the applicant store, the session
\* cache and the link store as they were.
AutoLinkFailureSwallowed ==
  [][(AutoLinkStep /\ ~last'.result.success)
       => /\ last'.result.reason \in FailureReasons
          /\ last'.result.discordId = last'.id
          /\ UNCHANGED <<applicants, cache, links, linkKeys>>]_vars

\* C19 witness: the automatic link ran for an applicant whose record was
\* never written while the session of the application is cached, and
\* failed.
AutoLinkFailureSwallowedWitness ==
  /\ last.op = "processApplicant"
  /\ ~last.result.success
  /\ ~hasApplicant(last.id)
  /\ \E c \in DOMAIN cache.sessions : cache.sessions[c].openerId = last.id
  /\ links # Empty

(***************************************************************************)
(* Promotion of records that are not accepted.                             *)
(***************************************************************************)
\* the step is a direct call acceptApplicant(id)
AcceptCallStep(id) ==
  /\ last' # last
  /\ last'.op = "acceptApplicant"
  /\ last'.id = id

\* C20: acceptApplicant(id) for an id that has no ApplicantRecord, or whose
\* record is not accepted, returns leaving the member registry and every
\* other store as they were.
AcceptApplicantNoOp ==
  [][\A id \in Users :
       ((~hasApplicant(id) \/ ~applicants[id].accepted) /\ AcceptCallStep(id))
         => UNCHANGED <<members, applicants, links, linkKeys, clans, clanKeys,
                        cache>>]_vars

\* C20 witness: acceptApplicant was called for an applicant rejected after
\* an earlier acceptance; the member entry of that acceptance is as it was.
AcceptApplicantNoOpWitness ==
  /\ last.op = "acceptApplicant"
  /\ hasApplicant(last.id)
  /\ ~applicants[last.id].accepted
  /\ decision[last.id] = "rejected"
  /\ last.id \in DOMAIN members
  /\ last.at = 2
  /\ members[last.id].JoinDate = formatDate(1)

(***************************************************************************)
(* The life of a MemberRecord.                                             *)
(***************************************************************************)
\* the step is a Decide(Accept) on the stored record of u: a promotion
PromoteStep(u) ==
  /\ last' # last
  /\ last'.op = "decide"
  /\ last'.id = u
  /\ last'.reply = "accepted"

\* C21 as claimed: once a MemberRecord exists for an identity no step of
\* Open, Decide, Close or the automatic link changes any of its fields.
MemberNeverMutated ==
  [][\A u \in DOMAIN members :
       u \in DOMAIN members' /\ members'[u] = members[u]]_vars

\* C21 as amended: a MemberRecord is never removed, and it is created or
\* changed only by a promotion of its identity, a Decide(Accept) on the
\* stored record; Open, Decide(Reject), Close and the automatic link leave
\* every MemberRecord as it was.
MemberChangedOnlyByPromotion ==
  [][/\ DOMAIN members \subseteq DOMAIN members'
     /\ \A u \in DOMAIN members' :
          (u \notin DOMAIN members \/ members'[u] # members[u])
            => PromoteStep(u)]_vars

\* C21 witness: a member promoted as Steve applied again as Alex, was
\* rejected, had the ticket closed, and the automatic link then ran; the
\* entry still is the one of the promotion.
MemberChangedOnlyByPromotionWitness ==
  /\ last.op = "processApplicant"
  /\ "u1" \in DOMAIN members
  /\ members["u1"].minecraftUser = "Steve"
  /\ applicants["u1"].minecraftUser = "Alex"
  /\ decision["u1"] = "rejected"
  /\ applicants["u1"].closedAt # NullTime

\* C22: right after a Decide(Accept) for an identity that already has a
\* MemberRecord the registry holds one record for the identity, whose
\* copied fields are those of the current ApplicantRecord, whose JoinDate is
\* the day of this promotion and whose rank, ID and status are empty.
RepromotionOverwrites ==
  (last.op = "decide" /\ last.reply = "accepted" /\ last.wasMember)
    => /\ last.id \in DOMAIN members
       /\ Cardinality({k \in DOMAIN members :
                         members[k].discordId = last.id}) = 1
       /\ members[last.id] =
            [discordId |-> last.id,
             discordUser |-> applicants[last.id].discordUser,
             minecraftUser |-> applicants[last.id].minecraftUser,
             minecraftVersion |-> applicants[last.id].minecraftVersion,
             JoinedClan |-> clanName(applicants[last.id].server),
             JoinDate |-> formatDate(last.at),
             YazanakiRank |-> "", EmpireID |-> "", Status |-> ""]

\* C22 witness: a member promoted as Steve on day 0 applied again as Alex
\* and was promoted again on day 1.
RepromotionOverwritesWitness ==
  /\ last.op = "decide" /\ last.reply = "accepted" /\ last.wasMember
  /\ members[last.id].minecraftUser = "Alex"
  /\ members[last.id].JoinDate = 1
  /\ Len(issued["application"]) = 2

\* the step is a Decide(Reject), a Close or a new Open
NoPromotionStep ==
  /\ last' # last
  /\ \/ last'.op \in {"open", "close", "closed"}
     \/ last'.op = "decide" /\ last'.reply = "rejected"

\* C23: a Decide(Reject), a Close and a new Open leave the Member Registry
\* as it was, also when it holds a MemberRecord of the identity.
RegistryNotResynchronised ==
  [][NoPromotionStep => members' = members]_vars

\* C23 witness: a member promoted as Steve opened a new application as
\* Alex on a later day; the entry still names Steve and the earlier day.
RegistryNotResynchronisedWitness ==
  /\ last.op = "open"
  /\ last.id \in DOMAIN members
  /\ last.mcName = "Alex"
  /\ last.at = 2
  /\ members[last.id].minecraftUser = "Steve"
  /\ members[last.id].JoinDate = 0

(***************************************************************************)
(* Missing and malformed store files.                                      *)
(***************************************************************************)
\* C24: a load or a save of a store whose file was missing or malformed
\* does not raise; such a load yields the empty mapping, and after such a
\* save the file is sound.
DamagedFileTolerated ==
  (last.op \in {"load", "save"} /\ last.file # "ok")
    => /\ ~last.raised
       /\ last.op = "load" => last.value = Empty
       /\ last.op = "save" => disk[last.store] = "ok"

(***************************************************************************)
(* Writes that fail, and the order of the two writes of an acceptance.     *)
(***************************************************************************)
\* C25: an operation whose store save failed reports failure: linkMember
\* does not return success, and Decide does not report the applicant as
\* accepted or rejected.
SaveFailureReported ==
  /\ last.op = "linkMember_unsaved" => ~last.result.success
  /\ last.op = "decide_unsaved" => last.reply \notin {"accepted", "rejected"}

\* C26: every step that writes the MemberRecord of an identity leaves an
\* ApplicantRecord of that identity with accepted true in applicants.json,
\* also when a write failed or the process ended between the two writes.
ApplicantWrittenBeforeMember ==
  [][\A u \in DOMAIN members' :
       (u \notin DOMAIN members \/ members'[u] # members[u])
         => hasApplicant(u)' /\ applicants'[u].accepted]_vars

\* C26 witness: the process ended between the two writes of an acceptance:
\* the record is stored as accepted and the identity is no member.
ApplicantWrittenBeforeMemberWitness ==
  /\ last.op = "decide_crashed"
  /\ applicants[last.id].accepted
  /\ last.id \notin DOMAIN members

(***************************************************************************)
(* Handlers interleaved at their awaits.                                   *)
(***************************************************************************)
\* C27: a clan add that reports success writes clans.json from no snapshot
\* older than another handler's write: every ClanRecord stored before its
\* write is stored after it, so two successful adds for different guilds
\* leave both records.
ClanAddKeepsOtherClans ==
  [][(inflight' # inflight /\ last'.op = "clan_add" /\ last'.reply = "added")
       => \A g \in DOMAIN clans : g \in DOMAIN clans']_vars

\* C28: the application counter passes the number of a session only when
\* that session is stored: no state shows a pending Open whose number the
\* counter has reached, and after a failed Open the counter is below the
\* number that Open drew.
OpenIncrementsAtomically ==
  /\ \A h \in inflight :
       h.kind = "open"
         => CountersOrZero(readCache)["application"] < h.ticketNumber
  /\ last.op = "open_failed"
       => CountersOrZero(readCache)["application"] < last.ticketNumber

(***************************************************************************)
(* The applicant store as an audit trail.                                  *)
(***************************************************************************)
\* C29: no step of Open, Decide, Close, the archive or the automatic link,
\* by any user, removes an ApplicantRecord: every discordId that has a
\* record keeps one.
ApplicantRecordsKept ==
  [][DOMAIN applicants \subseteq DOMAIN applicants']_vars

\* C29 witness: the ticket of u1 was decided, closed, archived and deleted,
\* and u2 then opened an application; both records are stored.
ApplicantRecordsKeptWitness ==
  /\ last.op = "open" /\ last.id = "u2"
  /\ hasApplicant("u1") /\ hasApplicant("u2")
  /\ decision["u1"] = "accepted"
  /\ applicants["u1"].closeReason = "done"
  /\ ~\E c \in DOMAIN channels : channels[c].opener = "u1"
  /\ ~\E c \in DOMAIN readCache.sessions :
        readCache.sessions[c].openerId = "u1"

\* the step is an Open by an identity that has an ApplicantRecord
ReopenStep ==
  /\ last' # last
  /\ last'.op = "open"
  /\ hasApplicant(last'.id)

\* C30: an Open by an identity that has an ApplicantRecord leaves one
\* record for that identity and the records of the others as they were;
\* the record carries the fields submitted now, is not accepted and has no
\* closeReason and no closedAt.
ReopenOverwrites ==
  [][ReopenStep =>
       /\ DOMAIN applicants' = DOMAIN applicants
       /\ \A x \in DOMAIN applicants :
            x # last'.id => applicants'[x] = applicants[x]
       /\ LET a == applicants'[last'.id]
          IN  /\ a.discordId = last'.id
              /\ a.minecraftUser = last'.mcName
              /\ a.minecraftUserKey = ToLowerCase(last'.mcName)
              /\ a.minecraftVersion = last'.mcVersion
              /\ a.openedAt = last'.at
              /\ a.accepted = FALSE
              /\ a.closeReason = Null
              /\ a.closedAt = NullTime]_vars

\* C30 witness: a member accepted as Steve, whose ticket was closed with a
\* reason, opened a new application as Alex on a later day.
ReopenOverwritesWitness ==
  /\ last.op = "open"
  /\ last.ticketNumber = 2
  /\ last.mcName = "Alex"
  /\ last.at = 2
  /\ last.id \in DOMAIN members
  /\ members[last.id].minecraftUser = "Steve"
  /\ applicants[last.id].minecraftUser = "Alex"
  /\ decision[last.id] = "pending"

(***************************************************************************)
(* saveApplicant as an upsert.                                             *)
(***************************************************************************)
\* the fields of applicantData that saveApplicant copies under their own
\* name
CopiedFields ==
  {"minecraftUser", "minecraftVersion", "timezone", "previousGroups",
   "reason", "server"}

\* C31: after saveApplicant for an identity that had a record, every field
\* the call did not supply holds the value stored before, and so does
\* accepted when no accepted argument was passed.
SaveApplicantMerges ==
  (last.op = "saveApplicant" /\ last.had)
    => LET ad == last.args[2]
           rec == applicants[last.id]
       IN  /\ \A f \in CopiedFields :
                (ad[f] = Null /\ (f = "server" => last.args[3] = Null))
                  => rec[f] = last.before[f]
           /\ ~last.args[5] => rec.accepted = last.before.accepted

\* C32: after saveApplicant was called twice in a row with the same
\* arguments the stored record equals the record after the first call in
\* every field but the derived minecraftUserKey.
SaveApplicantIdempotent ==
  (last.op = "saveApplicant" /\ last.again)
    => [applicants[last.id] EXCEPT !.minecraftUserKey = Null]
         = [last.before EXCEPT !.minecraftUserKey = Null]

(***************************************************************************)
(* What a link attempt reports.                                            *)
(***************************************************************************)
\* C33: a linkMember result that fails with username_used names in its
\* details the discordId of the stored link that holds the username.
UsernameUsedNamesHolder ==
  (last.op = "linkMember" /\ ~last.result.success
     /\ last.result.reason = "username_used")
    => /\ last.result.detailsId \in DOMAIN links
       /\ SameIgnoringCase(links[last.result.detailsId].minecraftUser,
                           last.name)

\* C37: after a link command of an unlinked user that stored a link,
\* getMCFromDiscord of that user is the username typed in the command.
LinkCommandStoresTyped ==
  (last.op = "link_command" /\ last.result.success)
    => getMCFromDiscord(last.id) = last.name

\* C38: the link command replies success exactly when linkMember stored a
\* link, and otherwise replies with the uniqueness conflict linkMember
\* reported.
LinkCommandReplyFaithful ==
  last.op = "link_command"
    => /\ last.reply = "success" <=> last.result.success
       /\ ~last.result.success
            => last.reply \in {"already_linked", "username_used"}

(***************************************************************************)
(* The link store over time, and the sweep over all applicants.            *)
(***************************************************************************)
\* C34: no step of a link attempt, a lookup, the automatic link of one
\* applicant or the sweep over all applicants changes or removes a stored
\* LinkRecord.
LinkRecordImmutable ==
  [][\A id \in DOMAIN links :
       id \in DOMAIN links' /\ links'[id] = links[id]]_vars

\* C34 witness: u1 was linked to Steve, u2 was refused the same username,
\* both applied, and a sweep over both applicants has returned.
LinkRecordImmutableWitness ==
  /\ last.op = "autolinkAll"
  /\ Len(last.results) = 2
  /\ "u1" \in DOMAIN links
  /\ links["u1"].minecraftUser = "Steve"
  /\ "u2" \notin DOMAIN links
  /\ hasApplicant("u1")

\* what a returned sweep holds: one result for each id read at its start,
\* in that order, carrying that id; the ids are keys of the applicant
\* store in key order
SweepSafe ==
  last.op = "autolinkAll"
    => /\ Len(last.results) = Len(last.ids)
       /\ \A i \in 1..Len(last.ids) : last.results[i].discordId = last.ids[i]
       /\ Len(last.ids) <= Len(applicantKeys)
       /\ \A i \in 1..Len(last.ids) :
            last.ids[i] = applicantKeys[i] /\ hasApplicant(last.ids[i])

\* a sweep starts with the keys of the applicant store of that moment, one
\* for each record
SweepStartsWithAll ==
  (last' # last /\ last'.op = "autolinkAll_start")
    => /\ last'.ids = applicantKeys
       /\ {last'.ids[i] : i \in 1..Len(last'.ids)} = DOMAIN applicants
       /\ Len(last'.ids) = Cardinality(DOMAIN applicants)

\* C40: autolinkAll returns, and what it returns is one result for each
\* ApplicantRecord stored when it started, in key order, each carrying the
\* discordId of its applicant, results that are failures included.
SweepReturnsAll ==
  /\ []SweepSafe
  /\ [][SweepStartsWithAll]_vars
  /\ (Sweeps # {}) ~> (Sweeps = {})

\* C40 witness: a sweep started when only u1 had a record returned one
\* failed result, for u1, after u2 had applied as well.
SweepReturnsAllWitness ==
  /\ last.op = "autolinkAll"
  /\ last.ids = <<"u1">>
  /\ ~last.results[1].success
  /\ applicantKeys = <<"u1", "u2">>

(***************************************************************************)
(* Clan views and banner refreshes.                                        *)
(***************************************************************************)
\* C35: a step in which a clan view or a banner refresh finishes leaves
\* the set of guilds that have a ClanRecord as it was, and changes at most
\* the invite and the bannerURL of a record.
ClanViewKeepsClanSet ==
  [][(inflight' # inflight /\ last'.op \in {"clan_view", "banner"})
       => /\ DOMAIN clans' = DOMAIN clans
          /\ \A g \in DOMAIN clans :
               /\ clans'[g].abbr = clans[g].abbr
               /\ clans'[g].name = clans[g].name
               /\ clans'[g].joinedEmpire = clans[g].joinedEmpire]_vars

(***************************************************************************)
(* Who may open an application.                                            *)
(***************************************************************************)
\* C39: when the Apply button is pressed by a user who has no ticket
\* channel and no session in the cache, the application form is shown,
\* whatever tickets other users have.
OpenBlockedOnlyByOwnSession ==
  (/\ last.op = "start_application"
   /\ ~\E c \in DOMAIN channels : channels[c].opener = last.id
   /\ ~\E c \in DOMAIN readCache.sessions :
         readCache.sessions[c].openerId = last.id)
    => last.shown

(***************************************************************************)
(* Identities without a member record and without a link.                  *)
(***************************************************************************)
\* C36: isUnlinked(discordId) is true exactly when the member registry has
\* no record under discordId and the link registry gives no Minecraft
\* username for discordId.
IsUnlinkedIffBothMiss ==
  last.op = "isUnlinked"
    => (last.value
          <=> (last.id \notin DOMAIN members
               /\ getMCFromDiscord(last.id) = Null))

\* C36 witness: isUnlinked was asked about a member that has no link and
\* answered false.
IsUnlinkedIffBothMissWitness ==
  /\ last.op = "isUnlinked"
  /\ ~last.value
  /\ last.id \in DOMAIN members
  /\ last.id \notin DOMAIN links
  /\ \E other \in DOMAIN links : other # last.id

====
